---- MODULE Spec2Model ----
(***************************************************************************)
(* A model of ingestion/src/metadata/ingestion/source/sql_source.py:       *)
(* the walk of SQLSource.next_record over schemas, tables and views, the   *)
(* reconciliation of deleted tables against the catalog, and the column    *)
(* extraction of SQLSource._get_columns.                                   *)
(***************************************************************************)
EXTENDS Naturals, Sequences, FiniteSets, TLC

(***************************************************************************)
(* Bounds of the model.                                                    *)
(***************************************************************************)
\* how many of the run's inputs (a raising call, a filter pattern, a
\* switched-off include flag) depart from the nominal run
MaxDeviations == 2
\* tables the inspector lists in each schema
NumTables == 2
\* entities the catalog returns in one page of list_entities
PageSize == 1
\* columns the inspector reports for one table
MaxCols == 2
\* entries of the dbt manifest (nodes and sources together)
MaxNodes == 2
\* references in depends_on.nodes of one manifest node
MaxDeps == 3
\* calls of fetch_sample_data in one run
MaxFetches == 4
\* columns, nested ones included, of the table handed to the sink
MaxTreeCols == 3

(***************************************************************************)
(* The source database the inspector reflects.                             *)
(***************************************************************************)
None == "\\None"

serviceName == "svc"

AllTableNames == <<"t1", "t2", "t3", "t4">>

\* inspector.get_schema_names()
SourceSchemas == <<"s1", "s2">>

\* inspector.get_table_names(schema)
SourceTables(schema) == SubSeq(AllTableNames, 1, NumTables)

\* inspector.get_view_names(schema)
SourceViews(schema) == <<"v1">>

\* the names the catalog already holds under every schema: a table still in
\* the source, a view, and a table that has been dropped from the source
KnownNames == <<"t1", "v1", "t0">>

Range(f) == {f[i] : i \in DOMAIN f}

(***************************************************************************)
(* The inputs of one run: which calls raise, and the pipeline's            *)
(* configuration.                                                          *)
(***************************************************************************)
Point(op, s, n) == [op |-> op, s |-> s, n |-> n]

EntityNames == Range(SourceTables("s1")) \cup Range(SourceViews("s1"))

\* the calls of the run that may raise
FaultPoints ==
    {Point("test_connection", "", ""), Point("get_schema_names", "", "")}
    \cup {Point(op, s, "") : op \in {"get_table_names", "get_view_names", "list_entities"},
                             s \in Range(SourceSchemas)}
    \cup UNION {{Point("table", s, t) : t \in Range(SourceTables(s))} : s \in Range(SourceSchemas)}
    \cup UNION {{Point("view", s, v) : v \in Range(SourceViews(s))} : s \in Range(SourceSchemas)}

\* the departures of the configuration from the nominal one
ConfigPoints ==
    {Point("schemaFilterPattern", s, "") : s \in Range(SourceSchemas)}
    \cup {Point("tableFilterPattern", "", n) : n \in EntityNames}
    \cup {Point("includeTables", "", ""), Point("includeViews", "", "")}

RECURSIVE SubsetsUpTo(_, _)
SubsetsUpTo(S, k) ==
    IF k = 0 THEN {{}}
    ELSE LET smaller == SubsetsUpTo(S, k - 1)
         IN  smaller \cup {d \cup {p} : d \in smaller, p \in S}

Scenarios == SubsetsUpTo(FaultPoints \cup ConfigPoints, MaxDeviations)

\* the calls of run_profiler that meet ModuleNotFoundError
ProfilerPoints ==
    UNION {{Point("run_profiler", s, n) : n \in Range(SourceTables(s) \o SourceViews(s))}
              : s \in Range(SourceSchemas)}

\* the inputs of a run with the profiler switched on
ProfilerScenarios ==
    SubsetsUpTo(FaultPoints \cup ConfigPoints \cup ProfilerPoints, MaxDeviations)

VARIABLES
    \* inputs, fixed during a run
    faults,                 \* the calls that raise
    configured,             \* the pipeline's sourceConfig the SQLSource is built from
    source_config,          \* self.source_config
    config,                 \* self.config: the attributes the source reads with hasattr
    service_connection,     \* self.service_connection
    catalog,                \* the tables the catalog service holds
    \* the walker
    pc,                     \* position of next_record
    schema_names,           \* next_record: schema_names
    si,                     \* index of the current schema in schema_names
    tables,                 \* fetch_tables / fetch_views: the names being iterated
    ei,                     \* index of the current table or view
    database_source_state,  \* self.database_source_state
    status,                 \* self.status
    yielded,                \* what next_record has yielded to its consumer
    after,                  \* _build_database_state: after
    requests,               \* the calls of list_entities by _build_database_state so far
    database_state,         \* _build_database_state: tables / delete_tables: database_state
    di,                     \* delete_tables: index into database_state
    trace,                  \* the calls and outcomes of the run so far, in order
    \* two runs in a row
    run,                    \* 1 or 2
    first_success           \* the set of status.success of the first run

VARIABLES
    \* column extraction of one table or view after the other
    inspected,              \* what the inspector reports for the current table
    cpc,                    \* position of fetch_tables / fetch_views / _get_columns
    ci,                     \* _get_columns: index of the current column
    table_columns,          \* _get_columns: table_columns
    table_constraints,      \* self.table_constraints
    table_entity,           \* the Table assembled last
    warned                  \* _get_columns: the columns logger.warning was called for

VARIABLES
    \* the dbt artifacts and their merge into data models
    dbt_manifest,           \* self.dbt_manifest: its nodes and its sources
    manifest_entities,      \* _parse_data_model: manifest_entities, in dict order
    mi,                     \* _parse_data_model: index of the current entry
    data_models             \* self.data_models

VARIABLES
    \* the connection to the source database
    self_connection,        \* self._connection
    closed,                 \* has close() been called, and did it raise
    uses                    \* the uses of the connection property so far, in order

VARIABLES
    \* the sink's flattening of a table's columns
    root_columns,           \* table.columns of the table handed to the sink
    stack,                  \* the calls of _parse_columns in progress, innermost last
    column_names,           \* _parse_columns: column_names
    column_descriptions,    \* _parse_columns: column_descriptions
    tags                    \* _parse_columns: tags

nvars == <<self_connection, closed, uses>>

svars == <<root_columns, stack, column_names, column_descriptions, tags>>

xvars == <<nvars, svars>>

dvars == <<dbt_manifest, manifest_entities, mi, data_models>>

cvars == <<inspected, cpc, ci, table_columns, table_constraints, table_entity, warned>>

wvars == <<faults, configured, source_config, config, service_connection, catalog, pc, schema_names,
           si, tables, ei, database_source_state, status, yielded, after,
           requests, database_state, di, trace, run, first_success>>

vars == <<wvars, cvars, dvars, xvars>>

(***************************************************************************)
(* Helpers.                                                                *)
(***************************************************************************)
Str(x) == IF x = None THEN "None" ELSE x

\* metadata.utils.fqdn_generator.get_fqdn(Table, service, database, schema, table)
get_fqdn(service, database, schema, table) ==
    service \o "." \o database \o "." \o schema \o "." \o table

\* SQLSource._get_database: the name of the Database entity
GetDatabaseName(database) ==
    IF database = None \/ database = "" THEN "default" ELSE database

\* the entry fetch_tables and fetch_views write to filtered, failures, warnings
ShortName(name) == serviceName \o "." \o name

\* next_record: schema_fqdn
SchemaFqdn(schema) ==
    serviceName \o "." \o Str(service_connection.database) \o "." \o schema

\* filter_by_schema(self.source_config.schemaFilterPattern, schema_name=schema)
filter_by_schema(schema) == schema \in source_config.schemaFilterPattern

\* filter_by_table(self.source_config.tableFilterPattern, table_name=table_name)
filter_by_table(table_name) == table_name \in source_config.tableFilterPattern

Raises(op, s, n) == Point(op, s, n) \in faults

schema == schema_names[si]

EmptyStatus == [success |-> <<>>, failures |-> <<>>, warnings |-> <<>>, filtered |-> <<>>]

\* the catalog service: a stored table, its fullyQualifiedName and the
\* fully-qualified name of the schema it is listed under
CatalogTable(database, s, name) ==
    [name |-> name,
     fullyQualifiedName |-> get_fqdn(serviceName, database, s, name),
     databaseSchema |-> serviceName \o "." \o database \o "." \o s]

\* metadata.list_entities(entity=Table, after=after, limit=100, params={"database": scope}):
\* one page of the tables under scope, and the cursor of the next page
ScopedTables(scope) == SelectSeq(catalog, LAMBDA t : t.databaseSchema = scope)

\* the cursors are offsets into the listing; NoCursor is Python's None
NoCursor == 0

ListEntities(scope, cursor) ==
    LET all   == ScopedTables(scope)
        from  == IF cursor = NoCursor THEN 1 ELSE cursor
        to    == IF from + PageSize - 1 < Len(all) THEN from + PageSize - 1 ELSE Len(all)
    IN  [entities |-> SubSeq(all, from, to),
         after    |-> IF to < Len(all) THEN to + 1 ELSE NoCursor]

(***************************************************************************)
(* Init                                                                    *)
(***************************************************************************)
ConfigOf(sc) ==
    [markDeletedTables   |-> TRUE,
     includeTables       |-> Point("includeTables", "", "") \notin sc,
     includeViews        |-> Point("includeViews", "", "") \notin sc,
     enableDataProfiler  |-> FALSE,
     schemaFilterPattern |-> {p.s : p \in {q \in sc : q.op = "schemaFilterPattern"}},
     tableFilterPattern  |-> {p.n : p \in {q \in sc : q.op = "tableFilterPattern"}}]

InitialCatalog(database) ==
    LET n == Len(KnownNames)
        k == Len(SourceSchemas)
    IN  [i \in 1..(n * k) |->
            CatalogTable(GetDatabaseName(database),
                         SourceSchemas[((i - 1) \div n) + 1],
                         KnownNames[((i - 1) % n) + 1])]

\* self.config of a pipeline that does not set enable_policy_tags
NominalConfig == [has_enable_policy_tags |-> FALSE]

\* self.service_connection for the database name db
ConnectionOf(db) ==
    [database |-> db, enablePolicyTagImport |-> FALSE, tagCategoryName |-> "cat"]

\* the SQLSource before __init__ has run, for the inputs sc, the sourceConfig
\* conf and the database name db
WalkFrom(sc, conf, db) ==
    /\ faults = sc \cap (FaultPoints \cup ProfilerPoints)
    /\ configured = conf
    /\ source_config = configured
    /\ config = NominalConfig
    /\ service_connection = ConnectionOf(db)
    /\ catalog = InitialCatalog(db)
    /\ pc = "init"
    /\ schema_names = <<>>
    /\ si = 0
    /\ tables = <<>>
    /\ ei = 0
    /\ database_source_state = {}
    /\ status = EmptyStatus
    /\ yielded = <<>>
    /\ after = NoCursor
    /\ requests = <<>>
    /\ database_state = <<>>
    /\ di = 0
    /\ trace = <<>>
    /\ run = 1
    /\ first_success = {}

WalkInit ==
    \E sc \in Scenarios, mark \in BOOLEAN, db \in {None, "", "db"} :
        WalkFrom(sc, [ConfigOf(sc) EXCEPT !.markDeletedTables = mark], db)

\* a run with enableDataProfiler on
ProfilerInit ==
    \E sc \in ProfilerScenarios :
        WalkFrom(sc, [ConfigOf(sc) EXCEPT !.enableDataProfiler = TRUE], "db")

\* self.table_constraints is None, or a list of one TableConstraint: None is
\* the empty sequence here
NoEntity ==
    [tableType |-> None, description |-> None, columns |-> <<>>, tableConstraints |-> <<>>]

\* inspector.get_table_comment(table, schema): it raises, or returns a dict
\* whose "text" is None or the comment
Comment(raises, text) == [raises |-> raises, text |-> text]

Comments == {Comment(TRUE, None), Comment(FALSE, None), Comment(FALSE, "c")}

NominalComment == Comment(FALSE, "c")

NoInspection ==
    [tableType |-> None, comment |-> NominalComment, pk |-> <<>>, unique |-> <<>>,
     columns |-> <<>>]

\* no table is being extracted
ColsIdle ==
    /\ inspected = NoInspection
    /\ cpc = "idle"
    /\ ci = 0
    /\ table_columns = <<>>
    /\ table_constraints = <<>>
    /\ table_entity = NoEntity
    /\ warned = <<>>

\* no dbt artifacts are configured: self.data_models stays empty
DbtIdle ==
    /\ dbt_manifest = [nodes |-> <<>>, sources |-> <<>>]
    /\ manifest_entities = <<>>
    /\ mi = 0
    /\ data_models = <<>>

\* __init__ line 254: self._connection = None; NoConnection is Python's None
NoConnection == 0

\* no sample data is fetched
ConnIdle ==
    /\ self_connection = NoConnection
    /\ closed = "no"
    /\ uses = <<>>

\* no table is handed to the sink
SinkIdle ==
    /\ root_columns = <<>>
    /\ stack = <<>>
    /\ column_names = <<>>
    /\ column_descriptions = <<>>
    /\ tags = {}

Init == WalkInit /\ ColsIdle /\ DbtIdle /\ ConnIdle /\ SinkIdle

(***************************************************************************)
(* The walk: SQLSource.__init__ and the generator next_record.             *)
(***************************************************************************)
Inputs == <<faults, configured, config, service_connection, catalog>>

Config == <<Inputs, source_config>>

Event(op, s, n, result) == [op |-> op, s |-> s, n |-> n, result |-> result]

Log(e) == trace' = Append(trace, e)

\* the for loop over schema_names moves to its next schema, or ends
NextSchema ==
    /\ si' = si + 1
    /\ pc' = IF si + 1 > Len(schema_names) THEN "done" ELSE "schema"

\* a next_record without the try block around its loop body
Propagated == pc' = "raised" /\ si' = si

\* a fetch_tables and a fetch_views that catch the raise of their listing
\* themselves, so that next_record goes on to the reconciliation
CaughtByFetch ==
    IF pc = "list_entities" THEN NextSchema ELSE pc' = "delete_tables" /\ si' = si

\* next_record lines 395-397: a raise inside the loop body is caught and
\* logged, and the loop goes on
CaughtByNextRecord == NextSchema

\* a next_record that reconciles as soon as the tables are done
AfterTablesSkipsViews ==
    IF source_config.markDeletedTables THEN "delete_tables"
    ELSE IF source_config.includeViews THEN "get_view_names"
    ELSE "next_schema"

\* where next_record goes once fetch_tables is exhausted (or includeTables is off)
AfterTables ==
    IF source_config.includeViews THEN "get_view_names"
    ELSE IF source_config.markDeletedTables THEN "delete_tables"
    ELSE "next_schema"

\* where next_record goes once fetch_views is exhausted (or includeViews is off)
AfterViews ==
    IF source_config.markDeletedTables THEN "delete_tables" ELSE "next_schema"

Goto(target) ==
    IF target = "next_schema" THEN NextSchema ELSE pc' = target /\ si' = si

\* a scanned that keeps only the record scanned last
ScannedOverwrites(st, record) == [st EXCEPT !.success = <<record>>]

\* SQLSourceStatus.scanned
Scanned(st, record) == [st EXCEPT !.success = Append(@, record)]

\* SQLSourceStatus.filter
Filter(st, record) == [st EXCEPT !.filtered = Append(@, record)]

\* an except clause that only logs
RecordTableFailureSilent(st, table_name) == st

\* fetch_tables lines 470-475: the except clause of the loop body
RecordTableFailure(st, table_name) ==
    [st EXCEPT !.failures = Append(@, ShortName(table_name))]

\* an except clause that records the view in failures as well
RecordViewFailureTwice(st, view_name) ==
    [st EXCEPT !.warnings = Append(@, ShortName(view_name)),
               !.failures = Append(@, ShortName(view_name))]

\* fetch_views lines 549-551: the except clause of the loop body
RecordViewFailure(st, view_name) ==
    [st EXCEPT !.warnings = Append(@, ShortName(view_name))]

\* a try block around the whole loop: a raise ends the loop
BreakAfterRaise(i, names) == Len(names) + 1

\* fetch_tables line 476 / fetch_views line 552: continue, the loop goes on
\* with the entity after the one that raised
ContinueAfterRaise(i, names) == i + 1

\* the names a yielded OMetaDatabaseAndTable carries
Entity(tableType, s, name) ==
    [tableType |-> tableType,
     database  |-> GetDatabaseName(service_connection.database),
     schema    |-> s,
     name      |-> name]

\* SQLSource.register_record: the fully-qualified name it registers
RegisteredFqn(e) == get_fqdn(serviceName, e.database, e.schema, e.name)

\* a register_record that marks the record scanned and leaves the state alone
RegisterStateForgets(state, e) == state

\* SQLSource.register_record: its effect on database_source_state
RegisterState(state, e) == state \cup {RegisteredFqn(e)}

\* a loop body that builds the entity before it tests the table pattern
EntityOutcomeBuildFirst(op, s, n) ==
    IF Raises(op, s, n) THEN "raised"
    ELSE IF filter_by_table(n) THEN "filtered"
    ELSE "registered"

\* fetch_tables lines 408-476 / fetch_views lines 486-552: what one pass of
\* the loop body comes to; the table pattern is tested before anything of the
\* entity is fetched
EntityOutcome(op, s, n) ==
    IF filter_by_table(n) THEN "filtered"
    ELSE IF Raises(op, s, n) THEN "raised"
    ELSE "registered"

\* a run_profiler that only logs the missing module
ProfilerStaysEnabled(flag) == flag

\* run_profiler lines 289-293: ModuleNotFoundError switches
\* self.source_config.enableDataProfiler off
DisableProfiler(flag) == FALSE

\* fetch_tables lines 450-456 / fetch_views lines 529-535 with run_profiler:
\*   off      enableDataProfiler is off, run_profiler is not called
\*   missing  run_profiler meets ModuleNotFoundError and returns None
\*   profile  run_profiler returns a TableProfile
ProfilerOutcome(s, n) ==
    IF ~source_config.enableDataProfiler THEN "off"
    ELSE IF Raises("run_profiler", s, n) THEN "missing"
    ELSE "profile"

\* the events of a pass that ends in a yield, for entity n of schema s: the
\* build (description and columns fetched, Table assembled, sample data
\* fetched), run_profiler and register_record
BuildEvents(op, s, n) ==
    <<Event("build", s, n, "built")>>
    \o
    (IF ProfilerOutcome(s, n) = "off" THEN <<>>
     ELSE <<Event("run_profiler", s, n, ProfilerOutcome(s, n))>>)
    \o <<Event(op, s, n, "registered")>>

\* the OMetaDatabaseAndTable yielded for e; None is no tableProfile
Yielded(kind, e, outcome) ==
    [kind |-> kind, table |-> e,
     tableProfile |-> IF outcome = "profile" THEN "TableProfile" ELSE None]

\* what the build of entity n of schema s leaves in self.source_config
AfterProfiler(s, n) ==
    IF ProfilerOutcome(s, n) = "missing"
    THEN [source_config EXCEPT !.enableDataProfiler = DisableProfiler(@)]
    ELSE source_config

\* __init__: the service is created, the engine built, the connection tested
Construct ==
    /\ pc = "init"
    /\ pc' = IF Raises("test_connection", "", "") THEN "init_raised" ELSE "constructed"
    /\ UNCHANGED <<cvars, dvars, xvars, Config, schema_names, si, tables, ei, database_source_state,
                   status, yielded, after, database_state, di, trace, run, first_success, requests>>

\* next_record, up to the for loop: inspector.get_schema_names() is outside
\* every try block
GetSchemaNames ==
    /\ pc = "constructed"
    /\ IF Raises("get_schema_names", "", "")
       THEN /\ pc' = "raised"
            /\ Log(Event("get_schema_names", "", "", "raised"))
            /\ UNCHANGED <<schema_names, si>>
       ELSE /\ schema_names' = SourceSchemas
            /\ si' = 1
            /\ pc' = IF Len(SourceSchemas) = 0 THEN "done" ELSE "schema"
            /\ Log(Event("get_schema_names", "", "", "ok"))
    /\ UNCHANGED <<cvars, dvars, xvars, Config, tables, ei, database_source_state, status, yielded,
                   after, database_state, di, run, first_success, requests>>

\* a loop body that leaves the state of the schema before as it is
KeepState(state) == state

\* next_record line 380: self.database_source_state.clear()
ClearState(state) == {}

\* the head of the loop body: the state is cleared and the schema filtered
StartSchema ==
    /\ pc = "schema"
    /\ database_source_state' = ClearState(database_source_state)
    /\ IF filter_by_schema(schema)
       THEN /\ status' = Filter(status, schema)
            /\ Log(Event("schema", schema, "", "filtered"))
            /\ NextSchema
       ELSE /\ status' = status
            /\ Log(Event("schema", schema, "", "walked"))
            /\ Goto(IF source_config.includeTables THEN "get_table_names"
                    ELSE AfterTables)
    /\ UNCHANGED <<cvars, dvars, xvars, Config, schema_names, tables, ei, yielded, after,
                   database_state, di, run, first_success, requests>>

\* fetch_tables: tables = inspector.get_table_names(schema); a raise is caught
\* by next_record, which goes on with the next schema
GetTableNames ==
    /\ pc = "get_table_names"
    /\ IF Raises("get_table_names", schema, "")
       THEN /\ CaughtByNextRecord
            /\ Log(Event("get_table_names", schema, "", "raised"))
            /\ UNCHANGED <<tables, ei>>
       ELSE /\ tables' = SourceTables(schema)
            /\ ei' = 1
            /\ pc' = "fetch_tables"
            /\ si' = si
            /\ Log(Event("get_table_names", schema, "", "ok"))
    /\ UNCHANGED <<cvars, dvars, xvars, Config, schema_names, database_source_state, status, yielded,
                   after, database_state, di, run, first_success, requests>>

\* fetch_tables: one pass of the loop body for tables[ei]
FetchTable ==
    /\ pc = "fetch_tables"
    /\ ei <= Len(tables)
    /\ LET table_name == tables[ei]
           e == Entity("Regular", schema, table_name)
       IN  IF EntityOutcome("table", schema, table_name) = "filtered"
           THEN /\ status' = Filter(status, ShortName(table_name))
                /\ ei' = ei + 1
                /\ Log(Event("table", schema, table_name, "filtered"))
                /\ UNCHANGED <<database_source_state, yielded, source_config>>
           ELSE IF EntityOutcome("table", schema, table_name) = "raised"
           THEN /\ status' = RecordTableFailure(status, table_name)
                /\ ei' = ContinueAfterRaise(ei, tables)
                /\ Log(Event("table", schema, table_name, "raised"))
                /\ UNCHANGED <<database_source_state, yielded, source_config>>
           ELSE /\ source_config' = AfterProfiler(schema, table_name)
                /\ database_source_state' = RegisterState(database_source_state, e)
                /\ status' = Scanned(status, RegisteredFqn(e))
                /\ yielded' = Append(yielded,
                                  Yielded("Regular", e, ProfilerOutcome(schema, table_name)))
                /\ ei' = ei + 1
                /\ trace' = trace \o BuildEvents("table", schema, table_name)
    /\ UNCHANGED <<cvars, dvars, xvars, Inputs, pc, schema_names, si, tables, after, database_state,
                   di, run, first_success, requests>>

\* fetch_tables is exhausted
TablesDone ==
    /\ pc = "fetch_tables"
    /\ ei > Len(tables)
    /\ Goto(AfterTables)
    /\ UNCHANGED <<cvars, dvars, xvars, Config, schema_names, tables, ei, database_source_state, status,
                   yielded, after, database_state, di, trace, run, first_success, requests>>

\* fetch_views: inspector.get_view_names(schema)
GetViewNames ==
    /\ pc = "get_view_names"
    /\ IF Raises("get_view_names", schema, "")
       THEN /\ CaughtByNextRecord
            /\ Log(Event("get_view_names", schema, "", "raised"))
            /\ UNCHANGED <<tables, ei>>
       ELSE /\ tables' = SourceViews(schema)
            /\ ei' = 1
            /\ pc' = "fetch_views"
            /\ si' = si
            /\ Log(Event("get_view_names", schema, "", "ok"))
    /\ UNCHANGED <<cvars, dvars, xvars, Config, schema_names, database_source_state, status, yielded,
                   after, database_state, di, run, first_success, requests>>

\* fetch_views: one pass of the loop body for the view tables[ei]
FetchView ==
    /\ pc = "fetch_views"
    /\ ei <= Len(tables)
    /\ LET view_name == tables[ei]
           e == Entity("View", schema, view_name)
       IN  IF EntityOutcome("view", schema, view_name) = "filtered"
           THEN /\ status' = Filter(status, ShortName(view_name))
                /\ ei' = ei + 1
                /\ Log(Event("view", schema, view_name, "filtered"))
                /\ UNCHANGED <<database_source_state, yielded, source_config>>
           ELSE IF EntityOutcome("view", schema, view_name) = "raised"
           THEN /\ status' = RecordViewFailure(status, view_name)
                /\ ei' = ContinueAfterRaise(ei, tables)
                /\ Log(Event("view", schema, view_name, "raised"))
                /\ UNCHANGED <<database_source_state, yielded, source_config>>
           ELSE /\ source_config' = AfterProfiler(schema, view_name)
                /\ database_source_state' = RegisterState(database_source_state, e)
                /\ status' = Scanned(status, RegisteredFqn(e))
                /\ yielded' = Append(yielded,
                                  Yielded("View", e, ProfilerOutcome(schema, view_name)))
                /\ ei' = ei + 1
                /\ trace' = trace \o BuildEvents("view", schema, view_name)
    /\ UNCHANGED <<cvars, dvars, xvars, Inputs, pc, schema_names, si, tables, after, database_state,
                   di, run, first_success, requests>>

\* fetch_views is exhausted
ViewsDone ==
    /\ pc = "fetch_views"
    /\ ei > Len(tables)
    /\ Goto(AfterViews)
    /\ UNCHANGED <<cvars, dvars, xvars, Config, schema_names, tables, ei, database_source_state, status,
                   yielded, after, database_state, di, trace, run, first_success, requests>>

\* a _build_database_state that keeps the page fetched last
KeepLastPage(tabs, entities) == entities

\* _build_database_state line 911: tables.extend(table_entities.entities)
Extend(tabs, entities) == tabs \o entities

\* delete_tables: _build_database_state starts
DeleteTables ==
    /\ pc = "delete_tables"
    /\ after' = NoCursor
    /\ requests' = <<>>
    /\ database_state' = <<>>
    /\ pc' = "list_entities"
    /\ UNCHANGED <<cvars, dvars, xvars, Config, schema_names, si, tables, ei, database_source_state,
                   status, yielded, di, trace, run, first_success>>

\* _build_database_state: one pass of the while loop; a raise of the catalog
\* is caught by next_record
BuildDatabaseState ==
    /\ pc = "list_entities"
    /\ IF Raises("list_entities", schema, "")
       THEN /\ CaughtByNextRecord
            /\ Log(Event("list_entities", schema, "", "raised"))
            /\ UNCHANGED <<after, requests, database_state, di>>
       ELSE LET table_entities == ListEntities(SchemaFqdn(schema), after)
            IN  /\ requests' = Append(requests, [after |-> after, page |-> table_entities])
                /\ database_state' = Extend(database_state, table_entities.entities)
                /\ si' = si
                /\ Log(Event("list_entities", schema, "", "ok"))
                /\ IF table_entities.after = NoCursor
                   THEN pc' = "deleting" /\ di' = 1 /\ after' = after
                   ELSE pc' = pc /\ di' = di /\ after' = table_entities.after
    /\ UNCHANGED <<cvars, dvars, xvars, Config, schema_names, tables, ei, database_source_state, status,
                   yielded, run, first_success>>

\* a delete_tables that spares the tables the source still has
IsDeletedOnlyIfGone(table, state) ==
    table.fullyQualifiedName \notin state /\ table.name \notin Range(AllTableNames)

\* a delete_tables that tests membership the wrong way round
IsDeletedInverted(table, state) == table.fullyQualifiedName \in state

\* delete_tables line 557: is the table to be marked deleted
IsDeleted(table, state) == table.fullyQualifiedName \notin state

\* delete_tables: one pass of the for loop
DeleteStep ==
    /\ pc = "deleting"
    /\ di <= Len(database_state)
    /\ LET table == database_state[di]
       IN  IF IsDeleted(table, database_source_state)
           THEN /\ yielded' = Append(yielded, [kind |-> "DeleteTable", table |-> table])
                /\ Log(Event("DeleteTable", schema, table.fullyQualifiedName, "yielded"))
           ELSE /\ yielded' = yielded
                /\ Log(Event("DeleteTable", schema, table.fullyQualifiedName, "kept"))
    /\ di' = di + 1
    /\ UNCHANGED <<cvars, dvars, xvars, Config, pc, schema_names, si, tables, ei, database_source_state,
                   status, after, database_state, run, first_success, requests>>

\* delete_tables is exhausted
DeleteDone ==
    /\ pc = "deleting"
    /\ di > Len(database_state)
    /\ NextSchema
    /\ UNCHANGED <<cvars, dvars, xvars, Config, schema_names, tables, ei, database_source_state, status,
                   yielded, after, database_state, di, trace, run, first_success, requests>>

Next ==
    \/ Construct
    \/ GetSchemaNames
    \/ StartSchema
    \/ GetTableNames
    \/ FetchTable
    \/ TablesDone
    \/ GetViewNames
    \/ FetchView
    \/ ViewsDone
    \/ DeleteTables
    \/ BuildDatabaseState
    \/ DeleteStep
    \/ DeleteDone

Spec == Init /\ [][Next]_vars

(***************************************************************************)
(* Two runs in a row over an unchanged source: the second run is a fresh   *)
(* SQLSource, and the catalog holds exactly the tables the first yielded.  *)
(***************************************************************************)
RECURSIVE CatalogOf(_)
CatalogOf(out) ==
    IF out = <<>> THEN <<>>
    ELSE LET e == Head(out)
         IN  (IF e.kind = "DeleteTable" THEN <<>>
              ELSE <<CatalogTable(e.table.database, e.table.schema, e.table.name)>>)
             \o CatalogOf(Tail(out))

Rerun ==
    /\ pc = "done"
    /\ run = 1
    /\ run' = 2
    /\ first_success' = Range(status.success)
    /\ catalog' = CatalogOf(yielded)
    /\ pc' = "init"
    /\ schema_names' = <<>>
    /\ si' = 0
    /\ tables' = <<>>
    /\ ei' = 0
    /\ database_source_state' = {}
    /\ status' = EmptyStatus
    /\ yielded' = <<>>
    /\ after' = NoCursor
    /\ requests' = <<>>
    /\ database_state' = <<>>
    /\ di' = 0
    /\ trace' = <<>>
    /\ source_config' = configured
    /\ UNCHANGED <<cvars, dvars, xvars, faults, configured, config, service_connection>>

NextIdem == Next \/ Rerun

SpecIdem == Init /\ [][NextIdem]_vars

(***************************************************************************)
(* A run with the data profiler switched on.                               *)
(***************************************************************************)
InitProfiler == ProfilerInit /\ ColsIdle /\ DbtIdle /\ ConnIdle /\ SinkIdle

SpecProfiler == InitProfiler /\ [][Next]_vars

(***************************************************************************)
(* Column extraction: fetch_tables / fetch_views around _get_columns.      *)
(***************************************************************************)
ColumnNames == <<"a", "b", "c", "d">>

\* how _get_columns fares with one column:
\*   generic      the column has no raw_data_type and is emitted
\*   raw          the column has a raw_data_type, parsed by ColumnTypeParser
\*   raise_early  a raise before _get_column_constraints is reached
\*                (column["type"], get_column_type, the raw type's parser)
\*   raise_late   a raise after the table constraint is set (Column(...))
Paths == {"generic", "raw", "raise_early", "raise_late"}

\* the canonical type the type parser of the column's path gives:
\* ColumnTypeParser.get_column_type(column["type"]) on the generic path,
\* ColumnTypeParser._parse_datatype_string(raw)["dataType"] on the raw path
Types == {"INT", "VARCHAR", "NULL", None}

\* column["type"].length: <<>> when the type has no such attribute, <<0>> for
\* a length of 0 or None, <<n>> for a length of n
Lengths == {<<>>, <<0>>, <<8>>}

\* inspector.get_columns(table, schema), the types left alone
ColumnLists ==
    UNION {[1..n -> BOOLEAN \X Paths \X {"INT"} \X {<<>>}] : n \in 0..MaxCols}

\* inspector.get_columns(table, schema), the types varied
TypedColumnLists ==
    UNION {[1..n -> {TRUE} \X {"generic", "raw"} \X Types \X Lengths] : n \in 0..MaxCols}

\* one column of inspector.get_columns: besides its name, nullability, type
\* and length, column["policy_tags"] (None when the key is missing or empty),
\* what metadata.create_primary_tag does when called for it, and
\* str(column["type"]) as characters (left empty where it is not looked at)
InspectedColumn(i, c) ==
    [name |-> ColumnNames[i], nullable |-> c[1], path |-> c[2],
     dataType |-> c[3], length |-> c[4],
     policy_tags |-> None, registration |-> "created", native |-> <<>>]

\* what metadata.create_primary_tag does:
\*   created  the tag is registered
\*   exists   APIError, the tag is there already
\*   error    another exception
Registrations == {"created", "exists", "error"}

\* inspector.get_columns(table, schema), the policy tags varied
TaggedColumnLists ==
    UNION {[1..n -> {"generic", "raw"} \X {None, "pii"} \X Registrations] : n \in 0..MaxCols}

TaggedColumn(i, c) ==
    [InspectedColumn(i, <<TRUE, c[1], "INT", <<>>>>)
        EXCEPT !.policy_tags = c[2], !.registration = c[3]]

\* inspector.get_pk_constraint(table, schema)["constrained_columns"]
PkLists == {<<>>, <<"a">>, <<"b">>, <<"a", "b">>, <<"b", "a">>}

\* the column names of inspector.get_unique_constraints(table, schema)
UniqueLists == {<<>>, <<"a">>}

\* the primary key and the unique constraints of a table are over its columns
Inspections ==
    {r \in [tableType : {"Regular", "View"}, comment : Comments,
             pk : PkLists, unique : UniqueLists,
             columns : {[i \in DOMAIN cl |-> InspectedColumn(i, cl[i])] : cl \in ColumnLists}] :
        Range(r.pk) \cup Range(r.unique) \subseteq {r.columns[i].name : i \in DOMAIN r.columns}}

\* the tables whose columns differ in type and length only
TypedInspections ==
    [tableType : {"Regular"}, comment : {NominalComment}, pk : {<<>>}, unique : {<<>>},
     columns : {[i \in DOMAIN cl |-> InspectedColumn(i, cl[i])] : cl \in TypedColumnLists}]

\* str(column["type"]) of the columns whose canonical type is ARRAY:
\* array<varchar(50)>, array<int>, ARRAY(INT) and ARRAY
ArrayNatives ==
    {<<"a", "r", "r", "a", "y", "<", "v", "a", "r", "c", "h", "a", "r", "(", "5", "0", ")", ">">>,
     <<"a", "r", "r", "a", "y", "<", "i", "n", "t", ">">>,
     <<"A", "R", "R", "A", "Y", "(", "I", "N", "T", ")">>,
     <<"A", "R", "R", "A", "Y">>}

\* inspector.get_columns(table, schema), with columns of array type
ArrayColumnLists ==
    UNION {[1..n -> BOOLEAN \X (ArrayNatives \cup {<<>>})] : n \in 0..MaxCols}

ArrayColumn(i, c) ==
    [InspectedColumn(i, <<c[1], "generic", IF c[2] = <<>> THEN "INT" ELSE "ARRAY", <<>>>>)
        EXCEPT !.native = c[2]]

\* the tables some of whose columns are arrays
ArrayInspections ==
    [tableType : {"Regular"}, comment : {NominalComment}, pk : {<<>>}, unique : {<<>>},
     columns : {[i \in DOMAIN cl |-> ArrayColumn(i, cl[i])] : cl \in ArrayColumnLists}]

\* the tables whose columns differ in their policy tags only
TaggedInspections ==
    [tableType : {"Regular"}, comment : {NominalComment}, pk : {<<>>}, unique : {<<>>},
     columns : {[i \in DOMAIN cl |-> TaggedColumn(i, cl[i])] : cl \in TaggedColumnLists}]

In(x, seq) == \E i \in DOMAIN seq : seq[i] = x

LengthBounded == {"CHAR", "VARCHAR", "BINARY", "VARBINARY"}

\* a _check_col_length that gives 1 where the code gives None
CheckColLengthTotal(datatype, length) ==
    IF datatype # None /\ datatype \in LengthBounded /\ length # <<>> /\ length[1] # 0
    THEN length
    ELSE <<1>>

\* SQLSource._check_col_length: <<>> is None
CheckColLength(datatype, length) ==
    IF datatype # None /\ datatype \in LengthBounded
    THEN IF length # <<>> /\ length[1] # 0 THEN length ELSE <<1>>
    ELSE <<>>

\* the characters \w of a regular expression matches, among those of the
\* native types here
WordChar(c) == c \notin {"(", ")", "<", ">", ",", " "}

\* the length of the longest run of \w characters str starts with
RECURSIVE WordRun(_)
WordRun(str) ==
    IF str = <<>> \/ ~WordChar(Head(str)) THEN 0 ELSE 1 + WordRun(Tail(str))

\* the length of the run of "(" str starts with
RECURSIVE ParenRun(_)
ParenRun(str) ==
    IF str = <<>> \/ Head(str) # "(" THEN 0 ELSE 1 + ParenRun(Tail(str))

Drop(str, k) == SubSeq(str, k + 1, Len(str))

\* _get_columns lines 762-764: re.match(r"(?:\w*)(?:\()(\w*)(?:.*)", str) is
\* a match; "(" is no \w character, so it can only follow the whole run
MatchesParenthesized(str) ==
    LET rest == Drop(str, WordRun(str))
    IN  rest # <<>> /\ Head(rest) = "("

\* _get_columns lines 765-767, 772:
\* re.match(r"(?:\w*)(?:[(]*)(\w*)(?:.*)", str).groups()[0]
FirstGroup(str) ==
    LET rest  == Drop(str, WordRun(str))
        inner == Drop(rest, ParenRun(rest))
    IN  SubSeq(inner, 1, WordRun(inner))

\* ColumnTypeParser.get_column_type on the name of a type: its canonical
\* type, None when it has none
get_column_type_of_name(name) ==
    CASE name \in {<<"i", "n", "t">>, <<"I", "N", "T">>} -> "INT"
      [] name \in {<<"v", "a", "r", "c", "h", "a", "r">>,
                   <<"V", "A", "R", "C", "H", "A", "R">>} -> "VARCHAR"
      [] OTHER -> None

\* an extraction that takes the argument in angle brackets too
ExtractedElementGeneric(col_type, str) ==
    LET rest == Drop(str, WordRun(str))
    IN  IF col_type = "ARRAY" /\ rest # <<>> /\ Head(rest) \in {"(", "<"}
        THEN get_column_type_of_name(SubSeq(Tail(rest), 1, WordRun(Tail(rest))))
        ELSE None

\* _get_columns lines 762-773: arr_data_type after the extraction
ExtractedElement(col_type, str) ==
    IF col_type = "ARRAY" /\ MatchesParenthesized(str)
    THEN get_column_type_of_name(FirstGroup(str))
    ELSE None

\* _get_columns lines 809-811: arr_data_type of the emitted Column
ArrayDataType(col_type, arr_data_type) ==
    IF col_type = "ARRAY" /\ arr_data_type = None THEN "VARCHAR" ELSE arr_data_type

\* _get_columns line 812: the display type of an array
ArrayDisplay(arr_data_type) == "array<" \o arr_data_type \o ">"

\* a _get_columns without the fallback: the parser's type is emitted as it is
UnknownTypeKept(col_type) == col_type

\* _get_columns lines 791-792: an unknown type falls back to VARCHAR
UnknownTypeFallback(col_type) ==
    IF col_type = "NULL" \/ col_type = None THEN "VARCHAR" ELSE col_type

\* _get_columns lines 776-823: the Column of a column without raw_data_type
GenericColumn(column, col_constraint) ==
    LET col_data_length == CheckColLength(column.dataType, column.length)
        unknown == column.dataType = "NULL" \/ column.dataType = None
        col_type == UnknownTypeFallback(column.dataType)
        data_type_display == IF unknown THEN "varchar" ELSE None
        arr_data_type ==
            ArrayDataType(col_type, ExtractedElement(column.dataType, column.native))
    IN  [name |-> column.name,
         path |-> "generic",
         constraint |-> col_constraint,
         dataType |-> col_type,
         arrayDataType |-> arr_data_type,
         dataTypeDisplay |->
             IF col_type = "ARRAY" THEN ArrayDisplay(arr_data_type)
             ELSE IF data_type_display # None THEN data_type_display
             ELSE IF col_data_length # <<>>
             THEN Str(col_type) \o "(" \o ToString(col_data_length[1]) \o ")"
             ELSE col_type,
         dataLength |-> IF col_data_length = <<>> THEN <<1>> ELSE col_data_length,
         tags |-> <<>>]

\* get_fqdn(Tag, tagCategoryName, column["policy_tags"])
get_fqdn_of_tag(category, tag) == category \o "." \o tag

\* _get_columns lines 866-877: the TagLabel of the column's policy tag
TagLabel(column) ==
    [tagFQN |-> get_fqdn_of_tag(service_connection.tagCategoryName, column.policy_tags),
     labelType |-> "Automated", state |-> "Suggested", source |-> "Tag"]

\* _get_columns lines 848-880: col_dict.tags after the try block around
\* create_primary_tag; the label is attached in the except APIError clause
PolicyTagLabels(column) ==
    IF config.has_enable_policy_tags /\ column.policy_tags # None
    THEN IF column.registration = "exists" /\ service_connection.enablePolicyTagImport
         THEN <<TagLabel(column)>>
         ELSE <<>>
    ELSE <<>>

\* _get_columns lines 825-847: the Column of a column with a raw_data_type;
\* its display type and its array element type are the type parser's and are
\* not looked at
RawColumn(column) ==
    [name |-> column.name,
     path |-> "raw",
     constraint |-> None,
     dataType |-> column.dataType,
     arrayDataType |-> None,
     dataTypeDisplay |-> None,
     dataLength |-> CheckColLength(column.dataType, column.length),
     tags |-> PolicyTagLabels(column)]

\* _get_columns lines 791-798: is the warning of an unknown type logged
WarnsUnknownType(column) == column.dataType = "NULL" \/ column.dataType = None

\* a _get_column_constraints that tests the unique constraints first
GetColumnConstraintsUniqueFirst(column, pk_columns, unique_columns) ==
    LET constraint == IF column.nullable THEN "NULL" ELSE "NOT_NULL"
    IN  IF In(column.name, unique_columns) THEN "UNIQUE"
        ELSE IF In(column.name, pk_columns)
        THEN IF Len(pk_columns) > 1 THEN None ELSE "PRIMARY_KEY"
        ELSE constraint

\* SQLSource._get_column_constraints
GetColumnConstraints(column, pk_columns, unique_columns) ==
    LET constraint == IF column.nullable THEN "NULL" ELSE "NOT_NULL"
    IN  IF In(column.name, pk_columns)
        THEN IF Len(pk_columns) > 1 THEN None ELSE "PRIMARY_KEY"
        ELSE IF In(column.name, unique_columns) THEN "UNIQUE"
        ELSE constraint

\* _get_columns: does this column set self.table_constraints
SetsTableConstraint(col_constraint, pk_columns) ==
    col_constraint = None /\ Len(pk_columns) > 1

\* the list _get_columns writes to self.table_constraints
TableConstraintOf(pk_columns) ==
    <<[constraintType |-> "PRIMARY_KEY", columns |-> pk_columns]>>

\* a fetch_tables that leaves self.table_constraints as the table before left it
KeepTableConstraints(old) == old

\* fetch_tables: the reset of self.table_constraints before _get_columns
ResetTableConstraints(old) == <<>>

\* the OMetaDatabaseAndTable yielded for e with the assembled Table: the
\* record carries the tableConstraints of the Table
YieldedTable(e, table) ==
    [kind |-> table.tableType, table |-> e, tableProfile |-> None,
     tableConstraints |-> table.tableConstraints]

\* _get_table_description: None when get_table_comment raises
GetTableDescription(comment) == IF comment.raises THEN None ELSE comment.text

\* fetch_tables line 435: description if description is not None else " "
TableDescription(description) == IF description # None THEN description ELSE " "

\* fetch_views lines 519-520: _get_table_description(...) or ""
ViewDescription(description) ==
    IF description = None \/ description = "" THEN "" ELSE description

\* fetch_tables: what the assembled Table gets as tableConstraints
AttachedConstraints(constraints) == constraints

\* the walker in front of a table or a view
ColsInit ==
    /\ inspected \in {r \in Inspections : r.tableType = "Regular"}
    /\ cpc = "idle"
    /\ ci = 0
    /\ table_columns = <<>>
    /\ table_constraints = <<>>
    /\ table_entity = NoEntity
    /\ warned = <<>>

\* the walk variables while the column extraction is looked at alone, for
\* self.config conf and self.service_connection conn
WalkIdleWith(conf, conn) ==
    /\ faults = {}
    /\ configured = ConfigOf({})
    /\ source_config = configured
    /\ config = conf
    /\ service_connection = conn
    /\ catalog = <<>>
    /\ pc = "fetch_tables"
    /\ schema_names = SourceSchemas
    /\ si = 1
    /\ tables = SourceTables("s1")
    /\ ei = 1
    /\ database_source_state = {}
    /\ status = EmptyStatus
    /\ yielded = <<>>
    /\ after = NoCursor
    /\ requests = <<>>
    /\ database_state = <<>>
    /\ di = 0
    /\ trace = <<>>
    /\ run = 1
    /\ first_success = {}

WalkIdle == WalkIdleWith(NominalConfig, ConnectionOf("db"))

\* a _get_columns with its try block around the whole loop: a raise ends it
BreakColumnsAfterRaise(i, columns) == Len(columns) + 1

\* _get_columns lines 883-886: the raise of a column is caught and logged, and
\* the loop goes on with the column after it
ContinueColumnsAfterRaise(i, columns) == i + 1

\* the kind of entity the loop at pc iterates
KindAt(p) == IF p = "fetch_views" THEN "View" ELSE "Regular"

\* fetch_tables line 429 / fetch_views line 522: _get_columns is entered
BeginColumns ==
    /\ cpc = "idle"
    /\ table_constraints' = IF inspected.tableType = "Regular"
                            THEN ResetTableConstraints(table_constraints)
                            ELSE table_constraints
    /\ table_columns' = <<>>
    /\ warned' = <<>>
    /\ ci' = 1
    /\ cpc' = "columns"
    /\ UNCHANGED <<wvars, dvars, xvars, inspected, table_entity>>

\* _get_columns: one pass of the loop over the columns
ColumnStep ==
    /\ cpc = "columns"
    /\ ci <= Len(inspected.columns)
    /\ LET column == inspected.columns[ci]
           col_constraint ==
               GetColumnConstraints(column, inspected.pk, inspected.unique)
       IN  CASE column.path = "raise_early" ->
                   UNCHANGED <<table_columns, table_constraints, warned>>
             [] column.path = "raw" ->
                   /\ table_columns' = Append(table_columns, RawColumn(column))
                   /\ UNCHANGED <<table_constraints, warned>>
             [] OTHER ->
                   /\ table_constraints' =
                          IF SetsTableConstraint(col_constraint, inspected.pk)
                          THEN TableConstraintOf(inspected.pk)
                          ELSE table_constraints
                   /\ warned' = IF WarnsUnknownType(column)
                                THEN Append(warned, column.name) ELSE warned
                   /\ table_columns' =
                          IF column.path = "raise_late" THEN table_columns
                          ELSE Append(table_columns, GenericColumn(column, col_constraint))
    /\ ci' = IF inspected.columns[ci].path \in {"raise_early", "raise_late"}
             THEN ContinueColumnsAfterRaise(ci, inspected.columns)
             ELSE ci + 1
    /\ UNCHANGED <<wvars, dvars, xvars, inspected, cpc, table_entity>>

\* fetch_tables lines 431-439 / fetch_views lines 515-524: the Table is assembled
Assemble ==
    /\ cpc = "columns"
    /\ ci > Len(inspected.columns)
    /\ table_entity' =
          [tableType |-> inspected.tableType,
           description |->
               IF inspected.tableType = "Regular"
               THEN TableDescription(GetTableDescription(inspected.comment))
               ELSE ViewDescription(GetTableDescription(inspected.comment)),
           columns |-> table_columns,
           tableConstraints |-> IF inspected.tableType = "Regular"
                                THEN AttachedConstraints(table_constraints)
                                ELSE <<>>]
    /\ cpc' = "assembled"
    /\ UNCHANGED <<wvars, dvars, xvars, inspected, ci, table_columns, table_constraints, warned>>

\* fetch_tables lines 460-469 / fetch_views lines 538-547: the assembled Table
\* is registered and yielded; the locals of this pass of the loop are gone,
\* self.table_constraints stays
EndOfPass ==
    /\ cpc = "assembled"
    /\ cpc' = "between"
    /\ LET e == Entity(inspected.tableType, schema, tables[ei])
       IN  /\ database_source_state' = RegisterState(database_source_state, e)
           /\ status' = Scanned(status, RegisteredFqn(e))
           /\ yielded' = Append(yielded, YieldedTable(e, table_entity))
           /\ Log(Event(IF inspected.tableType = "View" THEN "view" ELSE "table",
                        schema, tables[ei], "registered"))
    /\ ei' = ei + 1
    /\ inspected' = NoInspection
    /\ ci' = 0
    /\ table_columns' = <<>>
    /\ table_entity' = NoEntity
    /\ warned' = <<>>
    /\ UNCHANGED <<dvars, xvars, Config, pc, schema_names, si, tables, after, requests,
                   database_state, di, run, first_success, table_constraints>>

\* the loop of fetch_tables / fetch_views goes on with its next table or view
NextInspected ==
    /\ cpc = "between"
    /\ pc \in {"fetch_tables", "fetch_views"}
    /\ ei <= Len(tables)
    /\ inspected' \in {r \in Inspections : r.tableType = KindAt(pc)}
    /\ cpc' = "idle"
    /\ UNCHANGED <<wvars, dvars, xvars, ci, table_columns, table_constraints, table_entity, warned>>

InitCols == WalkIdle /\ ColsInit /\ DbtIdle /\ ConnIdle /\ SinkIdle

NextCols ==
    \/ BeginColumns
    \/ ColumnStep
    \/ Assemble
    \/ EndOfPass
    \/ NextInspected
    \/ TablesDone
    \/ GetViewNames

SpecCols == InitCols /\ [][NextCols]_vars

(***************************************************************************)
(* The types and lengths of the columns of one table.                      *)
(***************************************************************************)
TypesInit ==
    /\ inspected \in TypedInspections
    /\ cpc = "idle"
    /\ ci = 0
    /\ table_columns = <<>>
    /\ table_constraints = <<>>
    /\ table_entity = NoEntity
    /\ warned = <<>>

InitTypes == WalkIdle /\ TypesInit /\ DbtIdle /\ ConnIdle /\ SinkIdle

NextTypes ==
    \/ BeginColumns
    \/ ColumnStep
    \/ Assemble
    \/ EndOfPass

SpecTypes == InitTypes /\ [][NextTypes]_vars

(***************************************************************************)
(* The policy tags of the columns of one table.                            *)
(***************************************************************************)
InitTags ==
    /\ \E has \in BOOLEAN, import \in BOOLEAN :
          WalkIdleWith([has_enable_policy_tags |-> has],
                       [ConnectionOf("db") EXCEPT !.enablePolicyTagImport = import])
    /\ inspected \in TaggedInspections
    /\ cpc = "idle"
    /\ ci = 0
    /\ table_columns = <<>>
    /\ table_constraints = <<>>
    /\ table_entity = NoEntity
    /\ warned = <<>>
    /\ DbtIdle
    /\ ConnIdle
    /\ SinkIdle

SpecTags == InitTags /\ [][NextTypes]_vars

(***************************************************************************)
(* The array types of the columns of one table.                            *)
(***************************************************************************)
ArraysInit ==
    /\ inspected \in ArrayInspections
    /\ cpc = "idle"
    /\ ci = 0
    /\ table_columns = <<>>
    /\ table_constraints = <<>>
    /\ table_entity = NoEntity
    /\ warned = <<>>

InitArrays == WalkIdle /\ ArraysInit /\ DbtIdle /\ ConnIdle /\ SinkIdle

SpecArrays == InitArrays /\ [][NextTypes]_vars

(***************************************************************************)
(* The dbt artifacts: SQLSource._parse_data_model merges the nodes and the *)
(* sources of the manifest into self.data_models.  Strings that are split, *)
(* joined or lower-cased are sequences of characters here.                 *)
(***************************************************************************)
\* a key of a dict that may be missing: <<>> when it is, <<v>> when it holds v
Absent == <<>>

Present(v) == <<v>>

\* the references depends_on.nodes may hold: <type>.<database>.<table>, the
\* same with a dot in the table part, and two malformed ones
DependsOnPool ==
    {<<"m", ".", "p", ".", "T">>,
     <<"m", ".", "p", ".", "T", ".", "c">>,
     <<"m", ".", "p">>}

RECURSIVE ListsUpTo(_, _)
ListsUpTo(S, k) ==
    IF k = 0 THEN {<<>>}
    ELSE LET shorter == ListsUpTo(S, k - 1)
         IN  shorter \cup {Append(l, x) : l \in shorter, x \in S}

\* str.lower() on one character
LowerChar(c) ==
    CASE c = "A" -> "a"
      [] c = "S" -> "s"
      [] c = "T" -> "t"
      [] OTHER -> c

\* str.lower()
Lower(str) == [i \in DOMAIN str |-> LowerChar(str[i])]

\* str.split(sep, maxsplit)
RECURSIVE Split(_, _, _)
Split(str, sep, maxsplit) ==
    IF maxsplit = 0 \/ ~In(sep, str) THEN <<str>>
    ELSE LET i == CHOOSE k \in DOMAIN str :
                     str[k] = sep /\ \A j \in 1..(k - 1) : str[j] # sep
         IN  <<SubSeq(str, 1, i - 1)>> \o Split(SubSeq(str, i + 1, Len(str)), sep, maxsplit - 1)

\* self.config.serviceName, as characters
ServiceNameChars == <<"s", "v", "c">>

\* get_fqdn(Table, service_name=service_name, table_name=table)
get_fqdn_of_table(service_name, table) == service_name \o <<".">> \o table

\* a _parse_data_model_upstream that takes the part after the first dot
UpstreamEntrySplitOnce(node) ==
    LET parts == Split(node, ".", 1)
    IN  IF Len(parts) # 2 THEN <<>>
        ELSE <<Lower(get_fqdn_of_table(ServiceNameChars, parts[2]))>>

\* _parse_data_model_upstream lines 616-628: what one reference adds to
\* upstream_nodes; the unpacking into three names raises unless the split
\* gives three parts, and the raise is caught
UpstreamEntry(node) ==
    LET parts == Split(node, ".", 2)
    IN  IF Len(parts) # 3 THEN <<>>
        ELSE <<Lower(get_fqdn_of_table(ServiceNameChars, parts[3]))>>

RECURSIVE UpstreamNodes(_)
UpstreamNodes(nodes) ==
    IF nodes = <<>> THEN <<>>
    ELSE UpstreamEntry(Head(nodes)) \o UpstreamNodes(Tail(nodes))

\* SQLSource._parse_data_model_upstream
ParseDataModelUpstream(mnode) ==
    IF mnode.depends_on = Absent THEN <<>> ELSE UpstreamNodes(mnode.depends_on[1])

\* the kinds of entry of the manifest:
\*   model        a model with a name
\*   aliased      a model with a name and an alias
\*   test         an entry whose resource_type is test
\*   source       an entry of the manifest's sources
\*   no_name      a model with neither alias nor name
\*   no_path      a model without root_path
\*   bad_columns  a model whose catalog entry has a column without a name
NodeKinds == {"model", "aliased", "test", "source", "no_name", "no_path", "bad_columns"}

Digits == <<"1", "2", "3", "4">>

\* the manifest entry of kind k at position i, with depends_on as given
ManifestNode(k, i, depends_on) ==
    [key           |-> <<"k", Digits[i]>>,
     kind          |-> k,
     alias         |-> IF k = "aliased" THEN Present(<<"A", Digits[i]>>) ELSE Absent,
     name          |-> IF k = "no_name" THEN Absent ELSE Present(<<"T", Digits[i]>>),
     schema        |-> Present(<<"S">>),
     resource_type |-> IF k = "test" THEN "test" ELSE IF k = "source" THEN "source" ELSE "model",
     root_path     |-> IF k = "no_path" THEN Absent ELSE Present(<<"r">>),
     original_file_path |-> <<"f", Digits[i]>>,
     catalog       |-> IF k = "bad_columns" THEN "bad" ELSE IF k = "source" THEN "none" ELSE "ok",
     depends_on    |-> depends_on]

\* the lists depends_on.nodes may hold
DependsOnLists == ListsUpTo(DependsOnPool, MaxDeps)

\* the manifest with entries of the kinds ks, the entry at position c (if
\* any) carrying depends_on.nodes = d
Manifest(ks, c, d) ==
    [i \in DOMAIN ks |-> ManifestNode(ks[i], i, IF i = c THEN Present(d) ELSE Absent)]

\* {**self.dbt_manifest["nodes"], **self.dbt_manifest["sources"]}: the entries
\* of nodes in their order, each with the value sources has under its key if
\* it has one, then the entries of sources under new keys
MergeDicts(nodes, sources) ==
    LET keyOf(seq) == {seq[i].key : i \in DOMAIN seq}
        override(e) == IF e.key \in keyOf(sources)
                       THEN sources[CHOOSE j \in DOMAIN sources : sources[j].key = e.key]
                       ELSE e
    IN  [i \in DOMAIN nodes |-> override(nodes[i])]
        \o SelectSeq(sources, LAMBDA e : e.key \notin keyOf(nodes))

\* _parse_data_model lines 581-605: does building the DataModel of mnode raise
NodeRaises(mnode) ==
    \/ mnode.alias = Absent /\ mnode.name = Absent
    \/ mnode.catalog = "bad"
    \/ mnode.resource_type # "test"
       /\ (mnode.schema = Absent \/ mnode.root_path = Absent)

\* _parse_data_model lines 592-594: model_name
ModelName(mnode) == IF mnode.alias # Absent THEN mnode.alias[1] ELSE mnode.name[1]

\* _parse_data_model line 606: model_fqdn
ModelFqdn(mnode) == Lower(mnode.schema[1] \o <<".">> \o ModelName(mnode))

\* _parse_data_model lines 597-605: the DataModel
DataModel(mnode) ==
    [modelType |-> "DBT",
     path      |-> mnode.root_path[1] \o <<"/">> \o mnode.original_file_path,
     upstream  |-> ParseDataModelUpstream(mnode)]

\* self.data_models[key] = model
Store(models, key, model) ==
    [k \in DOMAIN models \cup {key} |-> IF k = key THEN model ELSE models[k]]

\* a _parse_data_model with its try block around the loop: a raise ends it
BreakNodesAfterRaise(i, entities) == Len(entities) + 1

\* _parse_data_model lines 608-610: the raise of a node is caught and logged,
\* and the loop goes on with the next entry
ContinueNodesAfterRaise(i, entities) == i + 1

DbtInit ==
    /\ \E n \in 0..MaxNodes :
          \E ks \in [1..n -> NodeKinds], c \in 0..n, d \in DependsOnLists :
              /\ c = 0 => d = <<>>
              /\ LET m == Manifest(ks, c, d)
                 IN  dbt_manifest =
                         [nodes   |-> SelectSeq(m, LAMBDA e : e.kind # "source"),
                          sources |-> SelectSeq(m, LAMBDA e : e.kind = "source")]
    /\ manifest_entities = <<>>
    /\ mi = 0
    /\ data_models = <<>>

\* _parse_data_model lines 568-577: the artifacts are configured, and the
\* nodes and sources are merged
MergeManifest ==
    /\ mi = 0
    /\ manifest_entities' = MergeDicts(dbt_manifest.nodes, dbt_manifest.sources)
    /\ mi' = 1
    /\ UNCHANGED <<wvars, cvars, xvars, dbt_manifest, data_models>>

\* _parse_data_model lines 579-610: one pass of the loop over the entries
ParseNode ==
    /\ mi >= 1
    /\ mi <= Len(manifest_entities)
    /\ LET mnode == manifest_entities[mi]
       IN  IF NodeRaises(mnode)
           THEN /\ mi' = ContinueNodesAfterRaise(mi, manifest_entities)
                /\ UNCHANGED data_models
           ELSE /\ mi' = mi + 1
                /\ data_models' =
                      IF mnode.resource_type = "test" THEN data_models
                      ELSE Store(data_models, ModelFqdn(mnode), DataModel(mnode))
    /\ UNCHANGED <<wvars, cvars, xvars, dbt_manifest, manifest_entities>>

InitDbt == WalkIdle /\ ColsIdle /\ DbtInit /\ ConnIdle /\ SinkIdle

NextDbt ==
    \/ MergeManifest
    \/ ParseNode

SpecDbt == InitDbt /\ [][NextDbt]_vars

(***************************************************************************)
(* The connection to the source database: the property                     *)
(* SQLSource.connection, used by fetch_sample_data and by close.           *)
(***************************************************************************)
\* the calls of engine.connect() among the uses us
Connects(us) == Cardinality({i \in DOMAIN us : us[i].connected})

\* a property that connects anew on every use
ConnectsAlways(conn) == TRUE

\* connection line 316: if not self._connection
MustConnect(conn) == conn = NoConnection

\* one use of the property by the method by, after the uses us, while
\* self._connection is conn: engine.connect() is called when MustConnect,
\* and raises or returns a new Connection, the k-th call the Connection k;
\* got is the Connection the use returns, NoConnection when it raised
Use(by, us, conn, connect_raises) ==
    [by        |-> by,
     connected |-> MustConnect(conn),
     got       |-> IF MustConnect(conn)
                   THEN IF connect_raises THEN NoConnection ELSE Connects(us) + 1
                   ELSE conn,
     returned  |-> None]

\* fetch_sample_data lines 340-353: what it returns, TableData when the
\* connection was got and execute did not raise, None otherwise
SampleData(use, execute_raises) ==
    IF use.got # NoConnection /\ ~execute_raises THEN "TableData" ELSE None

\* connection lines 316-319: self._connection after the use
Held(conn, use) == IF use.got # NoConnection THEN use.got ELSE conn

\* fetch_sample_data: self.connection.execute(query); a raise of
\* engine.connect() or of execute is caught and logged
FetchSampleData ==
    /\ closed = "no"
    /\ Len(uses) < MaxFetches
    /\ \E connect_raises \in BOOLEAN, execute_raises \in BOOLEAN :
          LET use == Use("fetch_sample_data", uses, self_connection, connect_raises)
          IN  /\ uses' = Append(uses, [use EXCEPT !.returned =
                                                  SampleData(use, execute_raises)])
              /\ self_connection' = Held(self_connection, use)
    /\ UNCHANGED <<wvars, cvars, dvars, svars, closed>>

\* close: if self.connection is not None: self.connection.close(); both are
\* uses of the property, and a raise of engine.connect() reaches the caller
Close ==
    /\ closed = "no"
    /\ \E connect_raises \in BOOLEAN :
          LET test == Use("close", uses, self_connection, connect_raises)
              held == Held(self_connection, test)
              call == Use("close", Append(uses, test), held, FALSE)
          IN  IF test.got = NoConnection
              THEN /\ uses' = Append(uses, test)
                   /\ self_connection' = held
                   /\ closed' = "raised"
              ELSE /\ uses' = uses \o <<test, call>>
                   /\ self_connection' = Held(held, call)
                   /\ closed' = "yes"
    /\ UNCHANGED <<wvars, cvars, dvars, svars>>

InitConn == WalkIdle /\ ColsIdle /\ DbtIdle /\ ConnIdle /\ SinkIdle

NextConn ==
    \/ FetchSampleData
    \/ Close

SpecConn == InitConn /\ [][NextConn]_vars

(***************************************************************************)
(* The sink: ElasticsearchSink._parse_columns flattens the column tree of  *)
(* a table into column_names, column_descriptions and tags.  The calls in  *)
(* progress are kept on a stack, one frame for each.                       *)
(***************************************************************************)
\* the column i of a tree given by the parent of each column (0 for a
\* top-level column), with its ancestors
RECURSIVE AncestorsOrSelf(_, _)
AncestorsOrSelf(parent, i) ==
    IF i = 0 THEN {} ELSE {i} \cup AncestorsOrSelf(parent, parent[i])

\* the trees of n columns, numbered in pre-order: the parent of a column is
\* the column before it, one of that column's ancestors, or none
Shapes(n) ==
    {parent \in [1..n -> 0..n] :
        \A i \in 1..n :
            /\ parent[i] < i
            /\ parent[i] # 0 => parent[i] \in AncestorsOrSelf(parent, i - 1)}

\* the columns whose parent is i, in order
ChildrenOf(parent, i) ==
    LET all == [j \in DOMAIN parent |-> j]
    IN  SelectSeq(all, LAMBDA j : parent[j] = i)

\* the Column i of the tree, with its description (None for none), its tag
\* labels and its children
RECURSIVE ColumnTree(_, _, _, _)
ColumnTree(parent, descr, labels, i) ==
    LET ch == ChildrenOf(parent, i)
    IN  [name        |-> ColumnNames[i],
         description |-> descr[i],
         tags        |-> labels[i],
         children    |-> [k \in DOMAIN ch |-> ColumnTree(parent, descr, labels, ch[k])]]

\* table.columns of the tree
RootColumns(parent, descr, labels) ==
    LET ch == ChildrenOf(parent, 0)
    IN  [k \in DOMAIN ch |-> ColumnTree(parent, descr, labels, ch[k])]

\* one call of _parse_columns: its arguments columns and parent_column, and
\* the position i of its for loop
Frame(cols, parent_column) == [columns |-> cols, i |-> 1, parent_column |-> parent_column]

\* the sink has been handed a table and has entered
\* _parse_columns(table.columns, None, column_names, column_descriptions, tags)
SinkInit ==
    /\ \E n \in 0..MaxTreeCols :
          \E parent \in Shapes(n), descr \in [1..n -> {None, "text"}],
             labels \in [1..n -> {<<>>, <<"cat.pii">>}] :
              root_columns = RootColumns(parent, descr, labels)
    /\ stack = <<Frame(root_columns, None)>>
    /\ column_names = <<>>
    /\ column_descriptions = <<>>
    /\ tags = {}

\* _parse_columns lines 587-591: col_name
ColName(parent_column, name) ==
    IF parent_column # None /\ parent_column # ""
    THEN parent_column \o "." \o name
    ELSE name

\* _parse_columns line 601: the parent_column handed to the call for the
\* children of column, whose col_name is col_name
ParentOfChildren(col_name, column) == column.name

Top == stack[Len(stack)]

\* _parse_columns: one pass of the for loop of the innermost call
ParseColumn ==
    /\ stack # <<>>
    /\ Top.i <= Len(Top.columns)
    /\ LET column   == Top.columns[Top.i]
           col_name == ColName(Top.parent_column, column.name)
           resumed  == [stack EXCEPT ![Len(stack)].i = @ + 1]
       IN  /\ column_names' = Append(column_names, col_name)
           /\ column_descriptions' =
                  IF column.description # None /\ column.description # ""
                  THEN Append(column_descriptions, column.description)
                  ELSE column_descriptions
           /\ tags' = tags \cup Range(column.tags)
           /\ stack' = IF column.children # <<>>
                       THEN Append(resumed,
                                   Frame(column.children, ParentOfChildren(col_name, column)))
                       ELSE resumed
    /\ UNCHANGED <<wvars, cvars, dvars, nvars, root_columns>>

\* _parse_columns: the for loop of the innermost call is exhausted, the call
\* returns
ReturnFromParse ==
    /\ stack # <<>>
    /\ Top.i > Len(Top.columns)
    /\ stack' = SubSeq(stack, 1, Len(stack) - 1)
    /\ UNCHANGED <<wvars, cvars, dvars, nvars, root_columns, column_names, column_descriptions,
                   tags>>

InitSink == WalkIdle /\ ColsIdle /\ DbtIdle /\ ConnIdle /\ SinkInit

NextSink ==
    \/ ParseColumn
    \/ ReturnFromParse

SpecSink == InitSink /\ [][NextSink]_vars /\ WF_vars(NextSink)

(***************************************************************************)
(* Properties of the walk and of the reconciliation.                       *)
(***************************************************************************)
Fqns(seq) == [i \in DOMAIN seq |-> seq[i].fullyQualifiedName]

\* the catalog tables of the DeleteTable records yielded so far for schema s
DeletesFor(s) ==
    LET recs == SelectSeq(yielded, LAMBDA r : r.kind = "DeleteTable")
        tabs == [i \in DOMAIN recs |-> recs[i].table]
    IN  SelectSeq(tabs, LAMBDA t : t.databaseSchema = SchemaFqdn(s))

\* the first k tables the catalog lists under schema s that are not observed
Unobserved(s, k) ==
    SelectSeq(SubSeq(ScopedTables(SchemaFqdn(s)), 1, k),
              LAMBDA t : t.fullyQualifiedName \notin database_source_state)

\* C1: with markDeletedTables on, while delete_tables iterates the catalog's
\* listing of the current schema, the DeleteTable records it has yielded are
\* exactly, one each and in listing order, the listed tables passed so far
\* whose fullyQualifiedName is not in database_source_state; a table whose
\* name is in the set gets none.
C1_DeleteExactlyUnobserved ==
    (pc = "deleting" /\ source_config.markDeletedTables)
        => Fqns(DeletesFor(schema)) = Fqns(Unobserved(schema, di - 1))

\* C1: the catalog lists three tables under the schema, two of them observed
\* in this walk, and delete_tables has ended with one DeleteTable, for the third
C1_Witness ==
    /\ pc = "deleting"
    /\ di > Len(database_state)
    /\ Len(ScopedTables(SchemaFqdn(schema))) = 3
    /\ Cardinality({t \in Range(ScopedTables(SchemaFqdn(schema))) :
                        t.fullyQualifiedName \in database_source_state}) = 2
    /\ Len(DeletesFor(schema)) = 1
    /\ DeletesFor(schema)[1].name = "t0"

\* the positions in trace of the events of schema s with an operation of ops
Positions(ops, s) == {i \in DOMAIN trace : trace[i].op \in ops /\ trace[i].s = s}

SchemaIndex(s) == CHOOSE i \in DOMAIN SourceSchemas : SourceSchemas[i] = s

EntityOps == {"table", "view"}

ReconcileOps == {"list_entities", "DeleteTable"}

\* every name of names has an event of operation op in schema s before position k
AllBefore(op, s, names, k) ==
    \A n \in Range(names) :
        \E i \in Positions({op}, s) : trace[i].n = n /\ i < k

\* C2: the schemas are walked one after another (no event of an earlier schema
\* follows an event of a later one, so nothing of the next schema is processed
\* before the reconciliation of this one has ended); within a schema no table
\* or view is processed after its reconciliation has started; and the catalog
\* listing and every DeleteTable of a schema come after every table and every
\* view the walk enumerates in that schema has been filtered, registered or
\* recorded as failed.
C2_ReconcileAfterAllEntities ==
    /\ \A i, j \in DOMAIN trace :
          (i < j /\ trace[i].s # "" /\ trace[j].s # "")
              => SchemaIndex(trace[i].s) <= SchemaIndex(trace[j].s)
    /\ \A i, j \in DOMAIN trace :
          (i < j /\ trace[i].s = trace[j].s /\ trace[i].op \in ReconcileOps)
              => trace[j].op \in ReconcileOps
    /\ \A s \in Range(SourceSchemas) :
          \A k \in Positions(ReconcileOps, s) :
              /\ source_config.includeTables => AllBefore("table", s, SourceTables(s), k)
              /\ source_config.includeViews => AllBefore("view", s, SourceViews(s), k)

\* C2: a run has ended in which both schemas had their tables and their view
\* processed and were then reconciled, with a DeleteTable yielded for each
C2_Witness ==
    /\ pc = "done"
    /\ \A s \in Range(SourceSchemas) :
          /\ \E i \in Positions({"table"}, s) : trace[i].result = "raised" \/ trace[i].result = "registered"
          /\ \E i \in Positions({"view"}, s) : TRUE
          /\ \E i \in Positions({"DeleteTable"}, s) : trace[i].result = "yielded"

NoDeleteTable == \A i \in DOMAIN yielded : yielded[i].kind # "DeleteTable"

\* C3: in the second of two runs over an unchanged source, the catalog holding
\* exactly the tables the first run registered, no DeleteTable is ever yielded,
\* and when the run has ended the set of names in status.success is the set
\* the first run ended with.
C3_SecondRunIdempotent ==
    run = 2 => /\ NoDeleteTable
               /\ pc = "done" => Range(status.success) = first_success

\* C3: the second run has ended, after the catalog listed tables of the first
\* run under both schemas and each was found in database_source_state
C3_Witness ==
    /\ run = 2
    /\ pc = "done"
    /\ Cardinality(first_success) > 1
    /\ \A s \in Range(SourceSchemas) :
          \E i \in Positions({"DeleteTable"}, s) : trace[i].result = "kept"

\* the entries written for the entities of kind op ("table" or "view") whose
\* build raised, in the order of the raises
RaisedEntries(op) ==
    LET evs == SelectSeq(trace, LAMBDA e : e.op = op /\ e.result = "raised")
    IN  [i \in DOMAIN evs |-> ShortName(evs[i].n)]

\* C4 as claimed: every table and every view whose build raised is recorded
\* in status.failures.
C4_RaiseRecordedInFailures ==
    \A i \in DOMAIN trace :
        (trace[i].op \in EntityOps /\ trace[i].result = "raised")
            => ShortName(trace[i].n) \in Range(status.failures)

\* C4 amended: a regular table whose build raised is recorded in
\* status.failures and a view whose build raised in status.warnings:
\* status.failures holds one entry for each raise of a table build, in order,
\* and status.warnings one entry for each raise of a view build.
C4_RaiseRecordedByKind ==
    /\ status.failures = RaisedEntries("table")
    /\ status.warnings = RaisedEntries("view")

\* C4: the build of a table and the build of a view have both raised
C4_Witness ==
    /\ RaisedEntries("table") # <<>>
    /\ RaisedEntries("view") # <<>>

\* next_record has gone past schema s
Left(s) == pc = "done" \/ (pc \notin {"init", "init_raised", "constructed", "raised"}
                           /\ si > SchemaIndex(s))

IndexIn(names, n) == CHOOSE k \in DOMAIN names : names[k] = n

\* every name listed after position k in names has an event of operation op
\* in schema s after position i of trace
RestProcessed(op, s, names, k, i) ==
    \A m \in DOMAIN names :
        m > k => \E j \in Positions({op}, s) : j > i /\ trace[j].n = names[m]

\* C5: when the build of a table or view of schema s has raised and the walk
\* has gone past s, every table and view enumerated after it in s has been
\* processed (the views unless listing them raised), the catalog was listed
\* for the reconciliation of s when markDeletedTables is on (unless listing
\* the views raised), and the exception has not reached the consumer: the
\* only raise that ends next_record is that of get_schema_names.
C5_EntityRaiseNeverAborts ==
    /\ pc = "raised" => trace[Len(trace)].op = "get_schema_names"
    /\ \A i \in DOMAIN trace :
          LET e == trace[i]
              viewsListed == source_config.includeViews
                               /\ ~Raises("get_view_names", e.s, "")
          IN  (e.op \in EntityOps /\ e.result = "raised" /\ Left(e.s)) =>
                /\ e.op = "table" =>
                      /\ RestProcessed("table", e.s, SourceTables(e.s),
                                       IndexIn(SourceTables(e.s), e.n), i)
                      /\ viewsListed =>
                            RestProcessed("view", e.s, SourceViews(e.s), 0, i)
                /\ e.op = "view" =>
                      RestProcessed("view", e.s, SourceViews(e.s),
                                    IndexIn(SourceViews(e.s), e.n), i)
                /\ (source_config.markDeletedTables
                    /\ (e.op = "view" \/ viewsListed \/ ~source_config.includeViews))
                      => \E j \in Positions({"list_entities"}, e.s) : j > i

\* C5: the build of the first table of s1 raised, the table after it was
\* registered, the view processed and the schema reconciled
C5_Witness ==
    /\ Left("s1")
    /\ \E i \in Positions({"table"}, "s1") :
          /\ trace[i] = Event("table", "s1", "t1", "raised")
          /\ \E j \in Positions({"table"}, "s1") :
                j > i /\ trace[j] = Event("table", "s1", "t2", "registered")
          /\ \E j \in Positions({"view"}, "s1") : j > i
          /\ \E j \in Positions({"DeleteTable"}, "s1") : j > i

SchemaOps == {"get_table_names", "get_view_names", "list_entities"}

\* C6: when listing the tables, listing the views or the catalog listing of a
\* schema S has raised, next_record has not ended with an exception, and once
\* the run has ended the loop has reached every schema after S: each has been
\* filtered or walked, and its tables were listed if it was walked with
\* includeTables on.
C6_SchemaRaiseCaught ==
    \A i \in DOMAIN trace :
        (trace[i].op \in SchemaOps /\ trace[i].result = "raised") =>
            /\ pc # "raised"
            /\ pc = "done" =>
                 \A k \in DOMAIN SourceSchemas :
                     k > SchemaIndex(trace[i].s) =>
                        /\ \E j \in Positions({"schema"}, SourceSchemas[k]) : j > i
                        /\ (~filter_by_schema(SourceSchemas[k])
                            /\ source_config.includeTables)
                              => \E j \in Positions({"get_table_names"}, SourceSchemas[k]) : j > i

\* C6: a schema-level call of s1 raised, and the run ended after a table of
\* s2 was registered
C6_Witness ==
    /\ pc = "done"
    /\ \E i \in DOMAIN trace :
          /\ trace[i].op \in SchemaOps /\ trace[i].result = "raised" /\ trace[i].s = "s1"
          /\ \E j \in Positions({"table"}, "s2") : j > i /\ trace[j].result = "registered"

\* C7 as claimed: a run ends with an exception only in the constructor, before
\* anything is yielded; once construction has succeeded next_record never
\* raises to its consumer, also when get_schema_names fails.
C7_OnlyConnectionFailureEndsRun ==
    /\ pc = "init_raised" => (yielded = <<>> /\ Raises("test_connection", "", ""))
    /\ pc # "raised"

(***************************************************************************)
(* Properties of the column extraction.                                    *)
(***************************************************************************)
\* C8 as claimed: the Table assembled for a table with a one-column primary
\* key <<c>> has PRIMARY_KEY on the column named c and on no other column,
\* with or without raw_data_type, and no table-level constraint.
C8_SinglePkOnItsColumn ==
    (cpc = "assembled" /\ Len(inspected.pk) = 1) =>
        /\ \A i \in DOMAIN table_entity.columns :
              (table_entity.columns[i].constraint = "PRIMARY_KEY")
                  <=> (table_entity.columns[i].name = inspected.pk[1])
        /\ table_entity.tableConstraints = <<>>

\* C9 as claimed: the Table assembled by fetch_tables for a table with a
\* primary key of more than one column has PRIMARY_KEY on no column and
\* exactly one table-level constraint, PRIMARY_KEY over the primary-key
\* columns in the driver's order, whichever columns were extracted and
\* whether or not they carry a raw_data_type.
C9_CompositePkOnTable ==
    (cpc = "assembled" /\ inspected.tableType = "Regular" /\ Len(inspected.pk) > 1) =>
        /\ \A i \in DOMAIN table_entity.columns :
              table_entity.columns[i].constraint # "PRIMARY_KEY"
        /\ table_entity.tableConstraints =
              <<[constraintType |-> "PRIMARY_KEY", columns |-> inspected.pk]>>

\* the column the inspector reported under this name
InspectedNamed(name) ==
    inspected.columns[CHOOSE i \in DOMAIN inspected.columns :
                          inspected.columns[i].name = name]

\* the precedence PRIMARY_KEY > UNIQUE > NULL / NOT_NULL, with a primary key
\* counting only when it has one column
ByPrecedence(column, pk, unique) ==
    IF In(column.name, pk) /\ Len(pk) = 1 THEN "PRIMARY_KEY"
    ELSE IF In(column.name, unique) THEN "UNIQUE"
    ELSE IF column.nullable THEN "NULL"
    ELSE "NOT_NULL"

\* the columns emitted so far for which _get_column_constraints was called
Resolved == {i \in DOMAIN table_columns : table_columns[i].path = "generic"}

\* C10 as claimed: the constraint _get_column_constraints returned for a
\* column is the one the precedence gives, UNIQUE or NULL / NOT_NULL for a
\* member of a primary key of several columns.
C10_ExactlyOneByPrecedence ==
    \A i \in Resolved :
        table_columns[i].constraint =
            ByPrecedence(InspectedNamed(table_columns[i].name),
                         inspected.pk, inspected.unique)

\* C10 amended: _get_column_constraints returns no constraint (None) for a
\* column that is a member of a primary key of more than one column, also
\* when the column is in a unique constraint; for every other column it
\* returns the one constraint the precedence gives.
C10_NoneForCompositePkElsePrecedence ==
    \A i \in Resolved :
        LET column == InspectedNamed(table_columns[i].name)
        IN  table_columns[i].constraint =
                IF In(column.name, inspected.pk) /\ Len(inspected.pk) > 1
                THEN None
                ELSE ByPrecedence(column, inspected.pk, inspected.unique)

\* C10: a column that is a member of a two-column primary key and of a unique
\* constraint was emitted without a constraint, next to one that went by the
\* precedence
C10_Witness ==
    /\ Len(inspected.pk) = 2
    /\ \E i \in Resolved :
          /\ In(table_columns[i].name, inspected.pk)
          /\ In(table_columns[i].name, inspected.unique)
          /\ table_columns[i].constraint = None

(***************************************************************************)
(* Properties of the types and lengths of the emitted columns.             *)
(***************************************************************************)
\* the columns of the inspected table _get_columns has been through
Processed == IF cpc \in {"columns", "assembled"} THEN 1..(ci - 1) ELSE {}

\* the emitted Column of the inspected column c
EmittedFor(c) ==
    {j \in DOMAIN table_columns : table_columns[j].name = c.name}

\* C11: every column without raw_data_type whose type get_column_type does not
\* recognize ("NULL" or None) is emitted, with dataType VARCHAR, dataLength 1
\* and display type "varchar", and a warning is logged for it; no emitted
\* column of that path has a null or unset dataType; the Table is assembled
\* with all the emitted columns.
C11_UnknownTypeIsVarchar ==
    /\ \A i \in Processed :
          LET c == inspected.columns[i]
          IN  (c.path = "generic" /\ (c.dataType = "NULL" \/ c.dataType = None)) =>
                /\ In(c.name, warned)
                /\ \E j \in EmittedFor(c) :
                      /\ table_columns[j].dataType = "VARCHAR"
                      /\ table_columns[j].dataLength = <<1>>
                      /\ table_columns[j].dataTypeDisplay = "varchar"
    /\ \A j \in DOMAIN table_columns :
          table_columns[j].path = "generic"
              => (table_columns[j].dataType # "NULL" /\ table_columns[j].dataType # None)
    /\ cpc = "assembled" => table_entity.columns = table_columns

\* C11: a table is assembled with two columns, one of a type the parser gives
\* "NULL" for and one it gives None for, both with a driver length of 8, both
\* emitted as VARCHAR
C11_Witness ==
    /\ cpc = "assembled"
    /\ Len(inspected.columns) = 2
    /\ inspected.columns[1].path = "generic" /\ inspected.columns[1].dataType = "NULL"
    /\ inspected.columns[2].path = "generic" /\ inspected.columns[2].dataType = None
    /\ \A i \in 1..2 : inspected.columns[i].length = <<8>>
    /\ Len(table_entity.columns) = 2
    /\ \A j \in 1..2 : table_entity.columns[j].dataType = "VARCHAR"

\* C12 as claimed: every emitted column, on the generic path and on the
\* raw_data_type path, has a non-null dataLength: the driver's length when the
\* canonical type is CHAR, VARCHAR, BINARY or VARBINARY and the driver gives a
\* non-zero length, and 1 in every other case.
C12_DataLengthNeverNull ==
    \A j \in DOMAIN table_columns :
        LET c == InspectedNamed(table_columns[j].name)
        IN  /\ table_columns[j].dataLength # <<>>
            /\ table_columns[j].dataLength = CheckColLengthTotal(c.dataType, c.length)

(***************************************************************************)
(* Properties of the build of one table or view.                           *)
(***************************************************************************)
Names(seq) == [i \in DOMAIN seq |-> seq[i].name]

\* the first k columns the inspector reported whose processing did not raise
Survivors(k) ==
    SelectSeq(SubSeq(inspected.columns, 1, k),
              LAMBDA c : c.path \notin {"raise_early", "raise_late"})

\* C13: the columns _get_columns has emitted are, in the driver's order, the
\* columns it has been through whose processing did not raise, and the Table
\* is assembled with them; the pass of fetch_tables / fetch_views over a table
\* some of whose columns raised ends with the table registered (appended to
\* status.success, added to database_source_state) and yielded, and leaves
\* status.failures and status.warnings as they were.
C13_ColumnRaiseIsolated ==
    /\ [](/\ cpc \in {"columns", "assembled"}
               => Names(table_columns) = Names(Survivors(ci - 1))
          /\ cpc = "assembled" => table_entity.columns = table_columns)
    /\ [][(cpc = "assembled" /\ cpc' = "between") =>
            LET e == Entity(inspected.tableType, schema, tables[ei])
            IN  /\ Names(table_entity.columns) = Names(Survivors(Len(inspected.columns)))
                /\ yielded' = Append(yielded, YieldedTable(e, table_entity))
                /\ status'.success = Append(status.success, RegisteredFqn(e))
                /\ RegisteredFqn(e) \in database_source_state'
                /\ status'.failures = status.failures
                /\ status'.warnings = status.warnings]_vars

\* C13: a table is assembled of whose two columns the first raised: its
\* column list holds the second column alone
C13_Witness ==
    /\ cpc = "assembled"
    /\ Len(inspected.columns) = 2
    /\ inspected.columns[1].path \in {"raise_early", "raise_late"}
    /\ Names(table_entity.columns) = <<"b">>

(***************************************************************************)
(* Properties of the merge of the dbt artifacts.                           *)
(***************************************************************************)
\* the entries of the manifest _parse_data_model has been through
Parsed == 1..(mi - 1)

\* the positions of the dots of a reference
DotsOf(ref) == {i \in DOMAIN ref : ref[i] = "."}

\* a reference of the form <type>.<database>.<table>
WellFormed(ref) == Cardinality(DotsOf(ref)) >= 2

\* the table part of a well-formed reference: what follows its second dot
TablePart(ref) ==
    LET second == CHOOSE i \in DotsOf(ref) :
                      Cardinality({j \in DotsOf(ref) : j < i}) = 1
    IN  SubSeq(ref, second + 1, Len(ref))

\* an entry whose DataModel is to be stored
Stored(mnode) == mnode.resource_type # "test" /\ ~NodeRaises(mnode)

\* C14: for every manifest entry that was parsed and carries depends_on.nodes,
\* the DataModel is stored in data_models, and its upstream list has one entry
\* for each well-formed reference, in list order, the lower-cased name
\* get_fqdn gives for the service and the reference's table part, and none for
\* a malformed reference.
C14_UpstreamSkipsMalformed ==
    \A i \in Parsed :
        LET mnode == manifest_entities[i]
            refs == SelectSeq(mnode.depends_on[1], WellFormed)
        IN  (mnode.depends_on # Absent /\ Stored(mnode)) =>
              /\ ModelFqdn(mnode) \in DOMAIN data_models
              /\ data_models[ModelFqdn(mnode)].upstream =
                    [j \in DOMAIN refs |->
                        Lower(get_fqdn_of_table(ServiceNameChars, TablePart(refs[j])))]

\* C14: a model whose depends_on.nodes holds a well-formed reference, a
\* malformed one and another well-formed one is stored with an upstream list
\* of two entries
C14_Witness ==
    \E i \in Parsed :
        LET mnode == manifest_entities[i]
        IN  /\ Stored(mnode)
            /\ mnode.depends_on # Absent
            /\ Len(mnode.depends_on[1]) = 3
            /\ WellFormed(mnode.depends_on[1][1])
            /\ ~WellFormed(mnode.depends_on[1][2])
            /\ WellFormed(mnode.depends_on[1][3])
            /\ ModelFqdn(mnode) \in DOMAIN data_models
            /\ Len(data_models[ModelFqdn(mnode)].upstream) = 2

\* the key a stored entry is expected under: its schema, a dot and its alias,
\* or its name when it has no alias, in lower case
ExpectedKey(mnode) ==
    <<"s", ".">> \o (IF mnode.kind = "aliased" THEN <<"a">> ELSE <<"t">>)
                 \o <<mnode.key[2]>>

\* C15: every entry of the merged nodes and sources that was parsed, is not a
\* test and did not raise has its DataModel stored under its lower-case
\* schema.name key (alias for name when it has one), whether entries before it
\* raised or not; nothing is stored for a test or for an entry that raised.
C15_NodeFailureIsolated ==
    /\ \A i \in Parsed :
          LET mnode == manifest_entities[i]
          IN  Stored(mnode) =>
                /\ ExpectedKey(mnode) \in DOMAIN data_models
                /\ data_models[ExpectedKey(mnode)].path =
                      <<"r", "/">> \o mnode.original_file_path
    /\ Cardinality(DOMAIN data_models) =
          Cardinality({i \in Parsed : Stored(manifest_entities[i])})

\* C15: the loop has ended over a manifest whose first entry raised and whose
\* second entry, a model with an alias, is stored
C15_Witness ==
    /\ Len(manifest_entities) = 2
    /\ mi = 3
    /\ NodeRaises(manifest_entities[1])
    /\ manifest_entities[2].kind = "aliased"
    /\ DOMAIN data_models = {<<"s", ".", "a", "2">>}

(***************************************************************************)
(* Properties of the profiler, the status and the filters in a walk.       *)
(***************************************************************************)
\* the positions in trace where run_profiler found the capability missing
MissingAt == {i \in DOMAIN trace : trace[i].op = "run_profiler"
                                    /\ trace[i].result = "missing"}

\* C16: once run_profiler has met ModuleNotFoundError, run_profiler is called
\* for no later table or view of the run and enableDataProfiler is and stays
\* false; the entity it was met on is registered and yielded, with no
\* tableProfile.
C16_MissingProfilerDisablesRest ==
    \A i \in MissingAt :
        /\ ~source_config.enableDataProfiler
        /\ \A j \in DOMAIN trace : j > i => trace[j].op # "run_profiler"
        /\ i < Len(trace)
        /\ trace[i + 1].op \in EntityOps
        /\ trace[i + 1].s = trace[i].s
        /\ trace[i + 1].n = trace[i].n
        /\ trace[i + 1].result = "registered"
        /\ \E k \in DOMAIN yielded :
              /\ yielded[k].kind # "DeleteTable"
              /\ yielded[k].table.schema = trace[i].s
              /\ yielded[k].table.name = trace[i].n
              /\ yielded[k].tableProfile = None
              /\ RegisteredFqn(yielded[k].table) \in Range(status.success)

\* C16: the run has ended after the first table of s1 was profiled, the
\* capability was found missing on the second, and the view of s1 and the
\* tables of s2 were registered without a call of run_profiler
C16_Witness ==
    /\ pc = "done"
    /\ \E i \in MissingAt :
          /\ trace[i].s = "s1" /\ trace[i].n = "t2"
          /\ \E h \in 1..(i - 1) : trace[h] = Event("run_profiler", "s1", "t1", "profile")
          /\ \E j \in Positions({"view"}, "s1") : j > i /\ trace[j].result = "registered"
          /\ \E j \in Positions({"table"}, "s2") : j > i /\ trace[j].result = "registered"

\* new extends old: old is a prefix of new
Extends(new, old) ==
    /\ Len(old) <= Len(new)
    /\ SubSeq(new, 1, Len(old)) = old

\* C17: every step of the run leaves each of status.success, status.filtered,
\* status.warnings and status.failures an extension of what it was: entries
\* are appended, none is removed, reordered or overwritten.
C17_StatusAppendOnly ==
    [][/\ Extends(status'.success, status.success)
       /\ Extends(status'.filtered, status.filtered)
       /\ Extends(status'.warnings, status.warnings)
       /\ Extends(status'.failures, status.failures)]_vars

\* C17: the run has ended with several entries in status.success and entries
\* in status.filtered and status.failures
C17_Witness ==
    /\ pc = "done"
    /\ Len(status.success) > 2
    /\ Len(status.filtered) > 0
    /\ Len(status.failures) > 0

\* the events of the build of an entity
BuildOps == EntityOps \cup {"build", "run_profiler"}

\* the names register_record gives the entity called n in schema s
FqnsOf(s, n) ==
    {RegisteredFqn(Entity(k, s, n)) : k \in {"Regular", "View"}}

\* s, n name an entity rejected by the schema pattern or by the table pattern
Rejected(s, n) == filter_by_schema(s) \/ filter_by_table(n)

\* C18: a schema rejected by the schema pattern is recorded in
\* status.filtered once the loop has passed it, and nothing else happens for
\* it: no listing of its tables or views, no build, no catalog listing, no
\* DeleteTable; a table or view rejected by the table pattern is recorded in
\* status.filtered and is never built or profiled; nothing rejected is
\* yielded, in status.success or in database_source_state.
C18_FilteredNotProcessed ==
    /\ \A i \in DOMAIN trace :
          LET e == trace[i]
          IN  /\ (e.s # "" /\ filter_by_schema(e.s))
                    => e = Event("schema", e.s, "", "filtered")
              /\ (e.op \in BuildOps /\ filter_by_table(e.n))
                    => /\ e.op \in EntityOps
                       /\ e.result = "filtered"
                       /\ ShortName(e.n) \in Range(status.filtered)
    /\ \A s \in Range(SourceSchemas) :
          (filter_by_schema(s) /\ Left(s)) =>
              /\ s \in Range(status.filtered)
              /\ Cardinality({i \in DOMAIN trace : trace[i].s = s}) = 1
    /\ \A k \in DOMAIN yielded :
          IF yielded[k].kind = "DeleteTable"
          THEN \A s \in Range(SourceSchemas) :
                  filter_by_schema(s) => yielded[k].table.databaseSchema # SchemaFqdn(s)
          ELSE ~Rejected(yielded[k].table.schema, yielded[k].table.name)
    /\ \A s \in Range(SourceSchemas), n \in EntityNames :
          Rejected(s, n) =>
              FqnsOf(s, n) \cap (Range(status.success) \cup database_source_state) = {}

\* C18: the run has ended with the schema s1 rejected by the schema pattern
\* and the table t1 of s2 rejected by the table pattern, the other table and
\* the view of s2 built, profiled and registered, and s2 reconciled
C18_Witness ==
    /\ pc = "done"
    /\ filter_by_schema("s1")
    /\ filter_by_table("t1")
    /\ status.filtered = <<"s1", ShortName("t1")>>
    /\ \E i \in Positions({"run_profiler"}, "s2") : trace[i].n = "t2"
    /\ \E i \in Positions({"view"}, "s2") : trace[i].result = "registered"
    /\ \E i \in Positions({"DeleteTable"}, "s2") : TRUE

\* the names registered so far in this walk of schema s
RegisteredIn(s) ==
    {RegisteredFqn(Entity(IF trace[i].op = "view" THEN "View" ELSE "Regular", s, trace[i].n)) :
        i \in {j \in Positions(EntityOps, s) : trace[j].result = "registered"}}

\* next_record is inside the walk or the reconciliation of the current schema
InSchema ==
    pc \in {"get_table_names", "fetch_tables", "get_view_names", "fetch_views",
            "delete_tables", "list_entities", "deleting"}

\* C19: database_source_state is empty right after the head of the loop body
\* of any schema, filtered or not; during the walk of a schema S and during
\* its reconciliation it holds exactly the fully-qualified names of the tables
\* and views registered for S in this walk, none of an earlier schema.
C19_ObservedSetPerSchema ==
    /\ (trace # <<>> /\ trace[Len(trace)].op = "schema") => database_source_state = {}
    /\ InSchema => database_source_state = RegisteredIn(schema)

\* C19: the second schema is being reconciled after entities were registered
\* in the first; the set holds the three names registered in the second
C19_Witness ==
    /\ pc = "deleting"
    /\ schema = "s2"
    /\ RegisteredIn("s1") # {}
    /\ Cardinality(database_source_state) = 3
    /\ database_source_state = RegisteredIn("s2")

(***************************************************************************)
(* Properties of the paging through the catalog.                           *)
(***************************************************************************)
\* the entities of the pages of reqs, in page order
RECURSIVE PagesOf(_)
PagesOf(reqs) ==
    IF reqs = <<>> THEN <<>>
    ELSE Head(reqs).page.entities \o PagesOf(Tail(reqs))

\* next_record, run to its end whenever it can take a step
SpecLive == Spec /\ WF_vars(Next)

\* C20: the first call of list_entities by _build_database_state carries no
\* cursor and each later call the cursor the page before returned; no call
\* follows a page that returned no cursor; the tables gathered are those of
\* all the pages visited, in page order, and when the call has returned they
\* are the whole listing of the schema's scope; and _build_database_state,
\* once started, comes to an end.
C20_PagingFollowsCursor ==
    /\ [](pc \in {"list_entities", "deleting"} =>
            /\ \A k \in DOMAIN requests :
                  /\ requests[k].after = (IF k = 1 THEN NoCursor
                                          ELSE requests[k - 1].page.after)
                  /\ k < Len(requests) => requests[k].page.after # NoCursor
            /\ database_state = PagesOf(requests)
            /\ pc = "deleting" =>
                  /\ requests[Len(requests)].page.after = NoCursor
                  /\ database_state = ScopedTables(SchemaFqdn(schema)))
    /\ (pc = "list_entities") ~> (pc # "list_entities")

\* C20: _build_database_state has returned after more than one page, with
\* three tables
C20_Witness ==
    /\ pc = "deleting"
    /\ Len(requests) > 1
    /\ Len(database_state) = 3
    /\ requests[2].after # NoCursor

(***************************************************************************)
(* Properties of the policy tags and of the array types.                   *)
(***************************************************************************)
\* C21 as claimed: with policy-tag import enabled, every column that carries
\* policy tags and that _get_columns has been through is emitted, also when
\* the registration of the tag raised, and carries the tag label of its
\* policy tag both when the registration succeeded and when it failed because
\* the tag exists already.
C21_TagAttachedEitherWay ==
    service_connection.enablePolicyTagImport =>
        \A i \in Processed :
            LET c == inspected.columns[i]
            IN  c.policy_tags # None =>
                  /\ EmittedFor(c) # {}
                  /\ c.registration \in {"created", "exists"} =>
                        \A j \in EmittedFor(c) :
                            table_columns[j].tags = <<TagLabel(c)>>

\* the native type array<varchar(50)>
ArrayOfVarchar50 ==
    <<"a", "r", "r", "a", "y", "<", "v", "a", "r", "c", "h", "a", "r", "(", "5", "0", ")", ">">>

\* C22 as claimed: every emitted column of the generic path whose canonical
\* type is ARRAY has as arrayDataType the canonical type of the element named
\* in the argument of its native type, in parentheses or in angle brackets,
\* VARCHAR when there is none, and "array<ELEMENT>" as display type; the
\* column of native type array<varchar(50)> is emitted with dataType ARRAY,
\* arrayDataType VARCHAR and display type "array<varchar>".
C22_ArrayNormalized ==
    \A j \in DOMAIN table_columns :
        LET c == InspectedNamed(table_columns[j].name)
            element == ExtractedElementGeneric(c.dataType, c.native)
        IN  c.dataType = "ARRAY" =>
              /\ table_columns[j].dataType = "ARRAY"
              /\ table_columns[j].arrayDataType =
                    (IF element = None THEN "VARCHAR" ELSE element)
              /\ table_columns[j].dataTypeDisplay =
                    "array<" \o table_columns[j].arrayDataType \o ">"
              /\ c.native = ArrayOfVarchar50 =>
                    /\ table_columns[j].arrayDataType = "VARCHAR"
                    /\ table_columns[j].dataTypeDisplay = "array<varchar>"

(***************************************************************************)
(* Properties of the description of a table or view.                       *)
(***************************************************************************)
\* C23 as claimed: when get_table_comment raises for a table or for a view,
\* the build goes on and the Table is assembled (and then registered and
\* yielded) with the empty string as description.
C23_FailedDescriptionIsEmpty ==
    (cpc = "assembled" /\ inspected.comment.raises) => table_entity.description = ""

(***************************************************************************)
(* Properties of the connection.                                           *)
(***************************************************************************)
\* no connection is held before the property has been used, and the one
\* held was returned by a call of engine.connect() in one of the uses
Lazy ==
    /\ uses = <<>> => self_connection = NoConnection
    /\ self_connection # NoConnection =>
          \E i \in DOMAIN uses : uses[i].connected /\ uses[i].got = self_connection

\* C24 as claimed: engine.connect() is not called before the first use of the
\* property, it is called at most once over the sample-data fetches and the
\* close() of a run, and every use after the first gets the connection the
\* first use got.
C24_ConnectAtMostOnce ==
    /\ Lazy
    /\ Connects(uses) <= 1
    /\ \A i \in DOMAIN uses : uses[i].got = uses[1].got

\* C24 amended: engine.connect() is not called before the first use of the
\* property; once a call has returned a connection it is never called again
\* and every later use gets that same connection; a call that raises leaves
\* no connection, and the next use calls engine.connect() again.
C24_ConnectUntilItSucceeds ==
    /\ Lazy
    /\ Cardinality({i \in DOMAIN uses : uses[i].connected /\ uses[i].got # NoConnection}) <= 1
    /\ \A i, j \in DOMAIN uses :
          (i < j /\ uses[i].got # NoConnection)
              => (uses[j].got = uses[i].got /\ ~uses[j].connected)
    /\ \A i \in DOMAIN uses :
          uses[i].got = NoConnection =>
              /\ uses[i].connected
              /\ i < Len(uses) => uses[i + 1].connected

\* C24: close() has returned after fetches of which the first met a raise of
\* engine.connect() and the later ones shared the connection of the second
C24_Witness ==
    /\ closed = "yes"
    /\ Len(uses) > 4
    /\ uses[1].got = NoConnection
    /\ uses[2].connected /\ uses[2].got # NoConnection
    /\ uses[Len(uses)].by = "close"
    /\ uses[Len(uses)].got = uses[2].got

(***************************************************************************)
(* Properties of the sink's flattening of the columns.                     *)
(***************************************************************************)
\* the qualified names of the columns of cols and below, in pre-order, under
\* the qualified name prefix (None at the top level)
RECURSIVE QualifiedNames(_, _)
QualifiedNames(cols, prefix) ==
    IF cols = <<>> THEN <<>>
    ELSE LET c == Head(cols)
             q == IF prefix = None THEN c.name ELSE prefix \o "." \o c.name
         IN  <<q>> \o QualifiedNames(c.children, q) \o QualifiedNames(Tail(cols), prefix)

\* C25 as claimed: _parse_columns comes to an end on every column tree, and
\* when it has, column_names holds one entry for each column of the tree, in
\* pre-order: the plain name of a top-level column, and for a nested column
\* the qualified name of its parent, a dot and its own name.
C25_QualifiedNamesInPreorder ==
    /\ <>(stack = <<>>)
    /\ [](stack = <<>> => column_names = QualifiedNames(root_columns, None))

(***************************************************************************)
(* Properties of the status entries, of the observed set and of the        *)
(* reconciliation over a whole run.                                        *)
(***************************************************************************)
\* the events of trace with the result given, in order
EventsWith(result) == SelectSeq(trace, LAMBDA e : e.result = result)

\* the passes of the loops of fetch_tables and fetch_views so far
EntityEvents == SelectSeq(trace, LAMBDA e : e.op \in EntityOps)

KindOf(op) == IF op = "view" THEN "View" ELSE "Regular"

\* the tables and views yielded so far
YieldedEntities == SelectSeq(yielded, LAMBDA r : r.kind # "DeleteTable")

\* C26: every table and view of a schema that passed the schema filter is
\* gone through once by its loop, and each pass leaves exactly one status
\* entry: status.filtered, status.success, status.failures and status.warnings
\* hold, in order, one entry for each filtered entity (and schema), each
\* registered entity, each table whose build raised and each view whose build
\* raised; the entities yielded are, in order, those appended to
\* status.success; and the step that yields an entity leaves its
\* fully-qualified name in status.success and in database_source_state.
C26_OneStatusEntryPerEntity ==
    /\ [](/\ \A i, j \in DOMAIN EntityEvents :
                (/\ EntityEvents[i].op = EntityEvents[j].op
                 /\ EntityEvents[i].s = EntityEvents[j].s
                 /\ EntityEvents[i].n = EntityEvents[j].n) => i = j
          /\ Len(status.filtered) + Len(status.success) + Len(status.failures)
                + Len(status.warnings)
                = Len(EntityEvents) + Len(SelectSeq(trace, LAMBDA e : e.op = "schema"
                                                                  /\ e.result = "filtered"))
          /\ status.filtered =
                [i \in DOMAIN EventsWith("filtered") |->
                    LET e == EventsWith("filtered")[i]
                    IN  IF e.op = "schema" THEN e.s ELSE ShortName(e.n)]
          /\ status.success =
                [i \in DOMAIN EventsWith("registered") |->
                    LET e == EventsWith("registered")[i]
                    IN  RegisteredFqn(Entity(KindOf(e.op), e.s, e.n))]
          /\ status.failures = RaisedEntries("table")
          /\ status.warnings = RaisedEntries("view")
          /\ status.success =
                [i \in DOMAIN YieldedEntities |-> RegisteredFqn(YieldedEntities[i].table)]
          /\ pc = "done" =>
                \A s \in Range(SourceSchemas) :
                    /\ Event("get_table_names", s, "", "ok") \in Range(trace)
                          => \A n \in Range(SourceTables(s)) :
                                \E e \in Range(EntityEvents) :
                                    e.op = "table" /\ e.s = s /\ e.n = n
                    /\ Event("get_view_names", s, "", "ok") \in Range(trace)
                          => \A n \in Range(SourceViews(s)) :
                                \E e \in Range(EntityEvents) :
                                    e.op = "view" /\ e.s = s /\ e.n = n)
    /\ [][(Len(yielded') > Len(yielded) /\ yielded'[Len(yielded')].kind # "DeleteTable") =>
            LET fqn == RegisteredFqn(yielded'[Len(yielded')].table)
            IN  /\ status'.success = Append(status.success, fqn)
                /\ fqn \in database_source_state']_vars

\* C26: a run has ended with a filtered table, a view whose build raised and
\* several registered entities
C26_Witness ==
    /\ pc = "done"
    /\ \E e \in Range(trace) : e.op = "table" /\ e.result = "filtered"
    /\ Len(status.warnings) > 0
    /\ Len(status.success) > 2
    /\ Len(YieldedEntities) = Len(status.success)

\* the passes over tables of schema s that ended filtered or raised
Unregistered(s) ==
    {i \in Positions({"table"}, s) : trace[i].result \in {"filtered", "raised"}}

\* delete_tables has gone through the whole listing of the current schema
Reconciled == pc = "deleting" /\ di > Len(database_state)

\* C27: a table of the source that was filtered by the table pattern or whose
\* build raised in the walk of schema S is not in database_source_state
\* during the walk and the reconciliation of S; and when, with
\* markDeletedTables on, delete_tables has gone through the catalog's listing
\* of S, a DeleteTable has been yielded for every such table the listing
\* holds, as for the listed table that is no longer in the source.
C27_UnregisteredTablesDeleted ==
    InSchema =>
        \A i \in Unregistered(schema) :
            LET fqn == RegisteredFqn(Entity("Regular", schema, trace[i].n))
            IN  /\ fqn \notin database_source_state
                /\ Reconciled =>
                      \A t \in Range(ScopedTables(SchemaFqdn(schema))) :
                          t.fullyQualifiedName = fqn => In(t, DeletesFor(schema))

\* C27: the reconciliation of a schema has ended with a DeleteTable for t1,
\* still in the source but filtered or failed in this walk, and one for t0,
\* no longer in the source
C27_Witness ==
    /\ Reconciled
    /\ \E i \in Unregistered(schema) : trace[i].n = "t1"
    /\ Names(DeletesFor(schema)) = <<"t1", "t0">>

\* the listings of tables or views that raised
ListingRaised ==
    {i \in DOMAIN trace : trace[i].op \in {"get_table_names", "get_view_names"}
                             /\ trace[i].result = "raised"}

\* C28: when listing the tables or listing the views of schema S has raised,
\* the catalog is not listed for S and no DeleteTable is yielded for S in the
\* run, whatever entities of S were registered before the raise.
C28_NoReconcileAfterListingRaise ==
    \A i \in ListingRaised :
        /\ Positions(ReconcileOps, trace[i].s) = {}
        /\ DeletesFor(trace[i].s) = <<>>

\* C28: the run has ended; the tables of s1 were registered, listing its
\* views raised and s1 was not reconciled, while s2 was, with a DeleteTable
C28_Witness ==
    /\ pc = "done"
    /\ source_config.markDeletedTables
    /\ \E i \in ListingRaised : trace[i].s = "s1" /\ trace[i].op = "get_view_names"
    /\ \E i \in Positions({"table"}, "s1") : trace[i].result = "registered"
    /\ Positions(ReconcileOps, "s1") = {}
    /\ DeletesFor("s2") # <<>>

\* C29: while a schema is reconciled, the scope passed to the catalog listing
\* is the dot-joined prefix of every fully-qualified name registered for the
\* schema, for every configured database name, None and "" included.
C29_ScopeIsPrefixOfRegistered ==
    pc \in {"list_entities", "deleting"} =>
        \A fqn \in database_source_state :
            \E n \in Range(AllTableNames) \cup Range(SourceViews(schema)) :
                fqn = SchemaFqdn(schema) \o "." \o n

\* C30: the tableConstraints of an assembled regular table are none or the
\* constraint over the table's own primary key, and none when that key has at
\* most one column, whatever the table before left in self.table_constraints;
\* an assembled view carries none.
C30_TableConstraintsDoNotLeak ==
    cpc = "assembled" =>
        IF table_entity.tableType = "Regular"
        THEN /\ table_entity.tableConstraints \in {<<>>, TableConstraintOf(inspected.pk)}
             /\ Len(inspected.pk) <= 1 => table_entity.tableConstraints = <<>>
        ELSE table_entity.tableConstraints = <<>>

\* C30: a regular table without a multi-column primary key is assembled with
\* no tableConstraints right after a regular table that was yielded with one
C30_Witness ==
    /\ cpc = "assembled"
    /\ table_entity.tableType = "Regular"
    /\ Len(inspected.pk) <= 1
    /\ table_entity.tableConstraints = <<>>
    /\ Len(yielded) >= 1
    /\ yielded[Len(yielded)].kind = "Regular"
    /\ yielded[Len(yielded)].tableConstraints # <<>>
====
